---- MODULE Spec2Model ----
(***************************************************************************)
(* Model of the SJG SOP assistant: the client-side session orchestrator    *)
(* (App.tsx, ChatInterface.tsx, Sidebar.tsx, WelcomeScreen) together with  *)
(* the two serverless endpoints it calls (api/chat.ts,                     *)
(* api/generate-title.ts).                                                 *)
(*                                                                         *)
(* Strings the code splits or trims are sequences of atoms, an atom being  *)
(* a single space or a run of non-space characters.  Every event handler   *)
(* and every continuation of handleSendMessage runs from one await to the  *)
(* next as one step, and React has re-rendered before the next event is    *)
(* dispatched, so a handler's closure holds the current state.             *)
(***************************************************************************)
EXTENDS Integers, Sequences, FiniteSets, TLC

VARIABLES chatSessions, activeChatId, isLoading, turns, now, server, bubble,
          localStorage, startup

vars == <<chatSessions, activeChatId, isLoading, turns, now, server, bubble,
          localStorage, startup>>

(* ------------------------------ bounds -------------------------------- *)

\* Number of calls of handleSendMessage in one run.
MaxTurns == 2

\* Last value of the millisecond clock read by Date.now().
MaxTime == 1

TurnIds == 1..MaxTurns

(* ------------------------------ strings ------------------------------- *)

SP == " "

Min(a, b) == IF a < b THEN a ELSE b

RECURSIVE TrimStart(_)
TrimStart(s) ==
    IF s # <<>> /\ Head(s) = SP THEN TrimStart(Tail(s)) ELSE s

RECURSIVE TrimEnd(_)
TrimEnd(s) ==
    IF s # <<>> /\ s[Len(s)] = SP THEN TrimEnd(SubSeq(s, 1, Len(s) - 1)) ELSE s

\* String.prototype.trim
Trim(s) == TrimEnd(TrimStart(s))

RECURSIVE SplitFrom(_, _, _)
SplitFrom(s, i, cur) ==
    IF i > Len(s) THEN <<cur>>
    ELSE IF s[i] = SP THEN <<cur>> \o SplitFrom(s, i + 1, <<>>)
    ELSE SplitFrom(s, i + 1, Append(cur, s[i]))

\* messageText.split(' ')
Split(s) == SplitFrom(s, 1, <<>>)

\* .slice(0, n)
Slice(parts, n) == SubSeq(parts, 1, Min(n, Len(parts)))

RECURSIVE Join(_)
\* .join(' ')
Join(parts) ==
    IF parts = <<>> THEN <<>>
    ELSE IF Len(parts) = 1 THEN parts[1]
    ELSE parts[1] \o <<SP>> \o Join(Tail(parts))

FallbackWords == 5

\* Mutant: the whole message is taken as the title.
FallbackTitle_WholeText(messageText) == Join(Split(messageText))

FallbackTitle(messageText) == Join(Slice(Split(messageText), FallbackWords))

(* ------------------------------ values -------------------------------- *)

\* activeChatId === null
NULL == <<"null">>

\* `chat-${Date.now()}` and `msg-${Date.now()}`
ChatId(n) == <<"chat-", n>>
MsgId(n) == <<"msg-", n>>

\* Sender
USER == "user"
ASSISTANT == "assistant"

\* A JSON value with the tag typeof / Array.isArray reads.
JStr(s) == [typeof |-> "string", v |-> s]
JNum(n) == [typeof |-> "number", v |-> n]
JArr(a) == [typeof |-> "array", v |-> a]

\* Message.content: string | StructuredResponse.  A StructuredResponse is a
\* record holding typeof and exactly the fields that are present.
TextContent(text) == [typeof |-> "string", text |-> text]

Has(obj, field) == field \in DOMAIN obj

\* A response body response.json() cannot parse.
Unparseable == [typeof |-> "unparseable"]

\* content of the synthetic error message
ApologyContent ==
    [typeof |-> "object",
     summary |-> "Sorry, I encountered an error. Please try again."]

\* examplePrompts
examplePrompts ==
    << <<"How", SP, "do", SP, "I", SP, "handle", SP, "a", SP, "RealScout", SP, "lead?">>,
       <<"What's", SP, "the", SP, "process", SP, "for", SP, "delayed", SP,
         "marketing", SP, "in", SP, "BCS?">>,
       <<"Tell", SP, "me", SP, "about", SP, "delayed", SP, "marketing.">>,
       <<"Where", SP, "is", SP, "the", SP, "FUB", SP, "SOP?">> >>

\* The example prompts the user clicks.
ClickedPrompts == { examplePrompts[1] }

\* Texts the user may have typed into the textarea when pressing send.
InputValues ==
    { <<>>, <<SP>>,
      <<SP, "How", SP, "do", SP, "I", SP, "handle", SP, "a", SP, "RealScout", SP, "lead?", SP>> }

\* process.env of the serverless functions
Envs == [API_KEY : BOOLEAN, SLITE_API_KEY : BOOLEAN]

(* -------------------------- api/generate-title ------------------------ *)

\* The `?? 'New Chat'` default of the title endpoint.
NewChatText == <<"New", SP, "Chat">>

\* Outcomes of ai.models.generateContent for the title prompt.
TitleGenOutcomes ==
    { [kind |-> "throw"],
      [kind |-> "text", text |-> <<SP>>],
      [kind |-> "text", text |-> <<SP, "RealScout", SP, "Leads", SP>>] }

HttpResponse(status, json) == [kind |-> "response", status |-> status, json |-> json]

\* fetch() rejected: no response at all.
Rejected == [kind |-> "reject"]

\* Response.ok
Ok(resp) == resp.status >= 200 /\ resp.status <= 299

ErrorBody == [error |-> "error"]

TitleHandler(method, body, env, gen) ==
    IF method # "POST" THEN HttpResponse(405, ErrorBody)
    ELSE IF ~Has(body, "message") \/ body.message.typeof # "string"
            \/ body.message.v = <<>>
         THEN HttpResponse(400, ErrorBody)
    ELSE IF ~env.API_KEY THEN HttpResponse(500, ErrorBody)
    ELSE IF gen.kind = "throw" THEN HttpResponse(500, ErrorBody)
    ELSE LET title == Trim(IF gen.kind = "undefined" THEN NewChatText ELSE gen.text)
         IN  HttpResponse(200, [title |-> JStr(title)])

(* ------------------------------ api/chat ------------------------------ *)

\* Characters of plaintext kept per document.
ContentLimit == 1000

Ellipsis == <<".", ".", ".">>

\* Mutant: a text of exactly the limit gets the ellipsis as well.
TruncateContent_AtLimit(plaintext) ==
    SubSeq(plaintext, 1, Min(ContentLimit, Len(plaintext)))
        \o (IF Len(plaintext) >= ContentLimit THEN Ellipsis ELSE <<>>)

\* note.plaintext.substring(0, 1000) + (note.plaintext.length > 1000 ? '...' : '')
TruncateContent(plaintext) ==
    SubSeq(plaintext, 1, Min(ContentLimit, Len(plaintext)))
        \o (IF Len(plaintext) > ContentLimit THEN Ellipsis ELSE <<>>)

RECURSIVE FilterOk(_)
\* (await Promise.all(...)).filter(Boolean)
FilterOk(details) ==
    IF details = <<>> THEN <<>>
    ELSE IF Head(details).kind = "ok" THEN <<Head(details)>> \o FilterOk(Tail(details))
    ELSE FilterOk(Tail(details))

\* A detail fetch that rejects, or whose body res.json() cannot read, rejects
\* Promise.all and with it the retrieval.
DetailThrows(details) ==
    \E i \in 1..Len(details) : details[i].kind \in {"reject", "badjson"}

\* Mutant: a failed search counts as a search without hits.
FetchSopsFromSlite_FailedSearchIsEmpty(search) ==
    IF search.kind \in {"reject", "notok", "badjson"}
    THEN [threw |-> FALSE, sops |-> <<>>, detailFetches |-> 0]
    ELSE IF ~Has(search, "data") \/ search.data.typeof # "array" \/ search.data.v = <<>>
    THEN [threw |-> FALSE, sops |-> <<>>, detailFetches |-> 0]
    ELSE LET details == search.data.v
             kept == FilterOk(details)
         IN  IF DetailThrows(details)
             THEN [threw |-> TRUE, sops |-> <<>>, detailFetches |-> Len(details)]
             ELSE [threw |-> FALSE,
                   sops |-> [i \in 1..Len(kept) |->
                               [title |-> kept[i].title,
                                content |-> TruncateContent(kept[i].plaintext)]],
                   detailFetches |-> Len(details)]

\* Mutant: a search without hits is an error.
FetchSopsFromSlite_NoHitsThrows(search) ==
    IF search.kind \in {"reject", "notok", "badjson"}
    THEN [threw |-> TRUE, sops |-> <<>>, detailFetches |-> 0]
    ELSE IF ~Has(search, "data") \/ search.data.typeof # "array" \/ search.data.v = <<>>
    THEN [threw |-> TRUE, sops |-> <<>>, detailFetches |-> 0]
    ELSE LET details == search.data.v
             kept == FilterOk(details)
         IN  IF DetailThrows(details)
             THEN [threw |-> TRUE, sops |-> <<>>, detailFetches |-> Len(details)]
             ELSE [threw |-> FALSE,
                   sops |-> [i \in 1..Len(kept) |->
                               [title |-> kept[i].title,
                                content |-> TruncateContent(kept[i].plaintext)]],
                   detailFetches |-> Len(details)]

\* fetchSopsFromSlite: search is the outcome of the search call, hits carrying
\* the outcome of their detail fetch.  Result: threw, or the formatted SOPs.
FetchSopsFromSlite(search) ==
    IF search.kind \in {"reject", "notok", "badjson"}
    THEN [threw |-> TRUE, sops |-> <<>>, detailFetches |-> 0]
    ELSE IF ~Has(search, "data") \/ search.data.typeof # "array" \/ search.data.v = <<>>
    THEN [threw |-> FALSE, sops |-> <<>>, detailFetches |-> 0]
    ELSE LET details == search.data.v
             kept == FilterOk(details)
         IN  IF DetailThrows(details)
             THEN [threw |-> TRUE, sops |-> <<>>, detailFetches |-> Len(details)]
             ELSE [threw |-> FALSE,
                   sops |-> [i \in 1..Len(kept) |->
                               [title |-> kept[i].title,
                                content |-> TruncateContent(kept[i].plaintext)]],
                   detailFetches |-> Len(details)]

\* Keys of the response schema, in schema order.
SchemaKeys ==
    <<"summary", "steps", "notes", "sources", "clarification", "isNotFound", "isOutOfScope">>

RECURSIVE StringifyFrom(_, _)
StringifyFrom(obj, i) ==
    IF i > Len(SchemaKeys) THEN <<>>
    ELSE (IF Has(obj, SchemaKeys[i]) THEN << <<SchemaKeys[i], obj[SchemaKeys[i]]>> >> ELSE <<>>)
             \o StringifyFrom(obj, i + 1)

\* JSON.stringify(msg.content)
Stringify(obj) == <<"{">> \o StringifyFrom(obj, 1) \o <<"}">>

\* messages.map(...) of the chat handler
GeminiContents(messages) ==
    [i \in 1..Len(messages) |->
        [role |-> IF messages[i].sender = USER THEN "user" ELSE "model",
         parts |-> << [text |-> IF messages[i].content.typeof = "string"
                                THEN messages[i].content.text
                                ELSE Stringify(messages[i].content)] >>]]

NoCall == [called |-> FALSE]

\* req.body of a request sent without a body: nothing to destructure.
NoBody == [typeof |-> "null"]

\* `const { messages } = req.body` throws on such a request, outside the try
\* block: the handler sends nothing, and the platform answers the failed
\* invocation with status 500 and a body of its own.
HandlerThrew ==
    [response |-> HttpResponse(500, Unparseable), searched |-> FALSE, model |-> NoCall]

ChatResult(status, json, searched, model) ==
    [response |-> HttpResponse(status, json), searched |-> searched, model |-> model]

\* handler of api/chat.ts.  gen is the outcome of generateContent: a throw,
\* no text, or a text that parses to gen.json (Unparseable when it does not).
ChatHandler(method, body, env, search, gen) ==
    IF method # "POST" THEN ChatResult(405, ErrorBody, FALSE, NoCall)
    ELSE IF body = NoBody THEN HandlerThrew
    ELSE IF ~Has(body, "messages") \/ body.messages.typeof # "array"
            \/ body.messages.v = <<>>
         THEN ChatResult(400, ErrorBody, FALSE, NoCall)
    ELSE LET messages == body.messages.v
             lastUserMessage == messages[Len(messages)]
         IN  IF lastUserMessage.sender # USER \/ lastUserMessage.content.typeof # "string"
             THEN ChatResult(400, ErrorBody, FALSE, NoCall)
             ELSE IF ~env.API_KEY \/ ~env.SLITE_API_KEY
             THEN ChatResult(500, ErrorBody, FALSE, NoCall)
             ELSE LET sopContentForAI == FetchSopsFromSlite(search)
                      call == [called |-> TRUE,
                               contents |-> GeminiContents(messages),
                               sops |-> sopContentForAI.sops]
                  IN  IF sopContentForAI.threw THEN ChatResult(500, ErrorBody, TRUE, NoCall)
                      ELSE IF gen.kind = "throw" THEN ChatResult(500, ErrorBody, TRUE, call)
                      ELSE LET parsed == IF gen.kind = "undefined"
                                         THEN [typeof |-> "object"]
                                         ELSE gen.json
                           IN  IF parsed = Unparseable
                               THEN ChatResult(500, ErrorBody, TRUE, call)
                               ELSE ChatResult(200, parsed, TRUE, call)


(* ------------------------- what the network returns ------------------- *)

\* Both keys are configured.
KeysSet == [API_KEY |-> TRUE, SLITE_API_KEY |-> TRUE]

\* The search found one note and its detail fetch yielded it.
SearchFound ==
    [kind |-> "ok", data |-> JArr(<< [kind |-> "ok", title |-> "Doc A",
                                      plaintext |-> <<"l", "e", "a", "d">>] >>)]

\* Outcomes of the Slite search call with the outcomes of the detail fetches.
SearchOutcomes ==
    { [kind |-> "reject"],
      [kind |-> "notok"],
      [kind |-> "ok", data |-> JArr(<<>>)],
      SearchFound }

\* The model answered with a schema-shaped object.
GenAnswer ==
    [kind |-> "text", json |-> [typeof |-> "object", summary |-> "X",
                                sources |-> <<"Doc A">>]]

\* Outcomes of ai.models.generateContent for the chat prompt.
ChatGenOutcomes ==
    { [kind |-> "throw"],
      [kind |-> "text", json |-> Unparseable],
      GenAnswer }

\* What `await fetch('/api/generate-title', ...)` can settle with: the
\* endpoint's response, a response whose body cannot be read, a body that is
\* JSON of another shape, or a rejection.
TitleFetchResults(messageText) ==
    { TitleHandler("POST", [message |-> JStr(messageText)], env, gen) :
          env \in Envs, gen \in TitleGenOutcomes }
      \cup { HttpResponse(200, Unparseable), HttpResponse(502, Unparseable),
             HttpResponse(200, [title |-> JStr(<<SP, SP>>)]),
             HttpResponse(200, [title |-> JNum(7)]),
             HttpResponse(200, [typeof |-> "object"]),
             Rejected }

\* What `await fetch('/api/chat', ...)` can settle with: the endpoint's
\* response for each way the configuration, the search or the
\* model call can turn out while the other two are in order (the handler
\* answers two failures at once as it answers the first of them), a response
\* whose body cannot be read, or a rejection.
ChatFetchResults(request) ==
    { ChatHandler(request.method, request.body, env, SearchFound, GenAnswer).response :
          env \in Envs }
      \cup { ChatHandler(request.method, request.body, KeysSet, search, GenAnswer).response :
                 search \in SearchOutcomes }
      \cup { ChatHandler(request.method, request.body, KeysSet, SearchFound, gen).response :
                 gen \in ChatGenOutcomes }
      \cup { HttpResponse(200, Unparseable), HttpResponse(502, Unparseable), Rejected }

(* ------------------------------- App.tsx ------------------------------ *)

\* No chat request issued (yet).
NoRequest == [sent |-> FALSE]

\* fetch('/api/chat', {method: 'POST', body: JSON.stringify({ messages: messagesForApi })})
ChatRequest(messagesForApi) ==
    [sent |-> TRUE, method |-> "POST", body |-> [messages |-> JArr(messagesForApi)]]

\* A call of handleSendMessage: where it stands (idle: not called; title, chat:
\* awaiting that fetch; done: returned) and what its closure holds.
IdleTurn ==
    [pc |-> "idle", chatToUpdateId |-> NULL, isNewChat |-> FALSE,
     messageText |-> <<>>, messagesForApi |-> <<>>, request |-> NoRequest]

\* No invocation of the chat endpoint is followed on its own.
ServerOff == [pc |-> "off"]

\* No message bubble is followed on its own.
NoBubble == [pc |-> "none"]

\* localStorage.getItem('chatSessions') returned null: nothing is stored.
Missing == [kind |-> "missing"]

\* Mutant: the messages of the sessions are not written.
StoredChats_TitlesOnly(sessions) ==
    [kind |-> "text",
     json |-> JArr([i \in 1..Len(sessions) |-> [sessions[i] EXCEPT !.messages = <<>>]])]

\* JSON.stringify(chatSessions), the item the save effect writes: a text
\* that parses to the array of the session records.
StoredChats(sessions) == [kind |-> "text", json |-> JArr(sessions)]

\* The application is up: the load effect has run; discarded tells whether it
\* found an item it could not use.
Ready(discarded) == [pc |-> "ready", discarded |-> discarded]

\* The application is up after a first start: nothing was stored, and the
\* save effect has written the empty collection.
Init ==
    /\ chatSessions = <<>>
    /\ activeChatId = NULL
    /\ isLoading = FALSE
    /\ turns = [t \in TurnIds |-> IdleTurn]
    /\ now = 0
    /\ server = ServerOff
    /\ bubble = NoBubble
    /\ localStorage = StoredChats(<<>>)
    /\ startup = Ready(FALSE)

\* Date.now() moves on.
Tick ==
    /\ now < MaxTime
    /\ now' = now + 1
    /\ UNCHANGED <<chatSessions, activeChatId, isLoading, turns, server, bubble,
                 localStorage, startup>>

SessionIds == { chatSessions[i].id : i \in 1..Len(chatSessions) }

\* chatSessions.find(s => s.id === id): the index of the first match, 0 if none
Find(sessions, id) ==
    IF \E i \in 1..Len(sessions) : sessions[i].id = id
    THEN CHOOSE i \in 1..Len(sessions) :
             /\ sessions[i].id = id
             /\ \A j \in 1..(i - 1) : sessions[j].id # id
    ELSE 0

RECURSIVE Filter(_, _)
\* prev.filter(session => session.id !== chatId)
Filter(sessions, chatId) ==
    IF sessions = <<>> THEN <<>>
    ELSE IF Head(sessions).id # chatId
         THEN <<Head(sessions)>> \o Filter(Tail(sessions), chatId)
         ELSE Filter(Tail(sessions), chatId)

\* Mutant: the update overwrites the message list instead of extending it.
AppendMessage_Replace(sessions, id, m) ==
    [i \in 1..Len(sessions) |->
        IF sessions[i].id = id THEN [sessions[i] EXCEPT !.messages = <<m>>] ELSE sessions[i]]

\* Mutant: the message is appended twice.
AppendMessage_Twice(sessions, id, m) ==
    [i \in 1..Len(sessions) |->
        IF sessions[i].id = id
        THEN [sessions[i] EXCEPT !.messages = Append(Append(@, m), m)]
        ELSE sessions[i]]

\* Mutant: a session that is no longer listed is put back to hold the message.
AppendMessage_Upsert(sessions, id, m) ==
    IF \E i \in 1..Len(sessions) : sessions[i].id = id
    THEN [i \in 1..Len(sessions) |->
             IF sessions[i].id = id
             THEN [sessions[i] EXCEPT !.messages = Append(@, m)]
             ELSE sessions[i]]
    ELSE <<[id |-> id, title |-> <<>>, messages |-> <<m>>]>> \o sessions

\* Mutant: the message is appended to every session.
AppendMessage_EverySession(sessions, id, m) ==
    [i \in 1..Len(sessions) |-> [sessions[i] EXCEPT !.messages = Append(@, m)]]

\* prev.map(session => session.id === id ? {...session, messages: [...session.messages, m]} : session)
AppendMessage(sessions, id, m) ==
    [i \in 1..Len(sessions) |->
        IF sessions[i].id = id
        THEN [sessions[i] EXCEPT !.messages = Append(@, m)]
        ELSE sessions[i]]

\* Mutant: the title is set on every session.
SetTitle_EverySession(sessions, id, title) ==
    [i \in 1..Len(sessions) |-> [sessions[i] EXCEPT !.title = title]]

\* prev.map(session => session.id === id ? {...session, title} : session)
SetTitle(sessions, id, title) ==
    [i \in 1..Len(sessions) |->
        IF sessions[i].id = id THEN [sessions[i] EXCEPT !.title = title] ELSE sessions[i]]

handleNewChat ==
    /\ activeChatId' = NULL
    /\ UNCHANGED <<chatSessions, isLoading, turns, now, server, bubble,
                 localStorage, startup>>

\* The sidebar lists the sessions of chatSessions; a click selects one.
handleSelectChat(id) ==
    /\ id \in SessionIds
    /\ activeChatId' = id
    /\ UNCHANGED <<chatSessions, isLoading, turns, now, server, bubble,
                 localStorage, startup>>

\* Mutant: the selection is kept when the selected session is deleted.
handleDeleteChat_KeepSelection(chatId) ==
    /\ chatSessions' = Filter(chatSessions, chatId)
    /\ activeChatId' = activeChatId
    /\ localStorage' = StoredChats(chatSessions')
    /\ UNCHANGED <<isLoading, turns, now, server, bubble, startup>>

handleDeleteChat(chatId) ==
    /\ chatSessions' = Filter(chatSessions, chatId)
    /\ activeChatId' = IF activeChatId = chatId THEN NULL ELSE activeChatId
    /\ localStorage' = StoredChats(chatSessions')
    /\ UNCHANGED <<isLoading, turns, now, server, bubble, startup>>

\* Sidebar: Delete in the menu of a listed session.
handleDeleteClick(sessionId) ==
    /\ sessionId \in SessionIds
    /\ handleDeleteChat(sessionId)

\* Mutant: only the new message is sent, the earlier history is dropped.
MessagesForApi_LastOnly(sessions, activeId, userMessage) == <<userMessage>>

\* currentActiveSession ? [...currentActiveSession.messages, userMessage] : [userMessage]
MessagesForApi(sessions, activeId, userMessage) ==
    LET found == Find(sessions, activeId)
    IN  IF found # 0 THEN Append(sessions[found].messages, userMessage) ELSE <<userMessage>>

\* The slot of the next call of handleSendMessage.
FreeTurn == CHOOSE t \in TurnIds : turns[t].pc = "idle" /\ \A u \in 1..(t - 1) : turns[u].pc # "idle"

\* handleSendMessage up to its first await: the optimistic update and, with
\* it, the first fetch (the title request of a new chat, else the chat request).
handleSendMessage(messageText) ==
    LET userMessage == [id |-> MsgId(now), sender |-> USER, content |-> TextContent(messageText)]
        messagesForApi == MessagesForApi(chatSessions, activeChatId, userMessage)
        isNewChat == activeChatId = NULL
        newChat == [id |-> ChatId(now), title |-> FallbackTitle(messageText),
                    messages |-> <<userMessage>>]
        chatToUpdateId == IF isNewChat THEN newChat.id ELSE activeChatId
    IN  /\ \E t \in TurnIds : turns[t].pc = "idle"
        /\ IF isNewChat
           THEN /\ activeChatId' = newChat.id
                /\ chatSessions' = <<newChat>> \o chatSessions
           ELSE /\ activeChatId' = activeChatId
                /\ chatSessions' = AppendMessage(chatSessions, chatToUpdateId, userMessage)
        /\ isLoading' = TRUE
        /\ turns' = [turns EXCEPT ![FreeTurn] =
                        [pc |-> IF isNewChat THEN "title" ELSE "chat",
                         chatToUpdateId |-> chatToUpdateId,
                         isNewChat |-> isNewChat,
                         messageText |-> messageText,
                         messagesForApi |-> messagesForApi,
                         request |-> IF isNewChat THEN NoRequest
                                     ELSE ChatRequest(messagesForApi)]]
        /\ localStorage' = StoredChats(chatSessions')
        /\ UNCHANGED <<now, server, bubble, startup>>

\* Mutant: whatever the textarea holds is sent, untrimmed and unchecked.
handleSend_NoGuard(inputValue) ==
    /\ ~isLoading
    /\ handleSendMessage(inputValue)

\* ChatInterface.handleSend: the send button or Enter in the textarea.
handleSend(inputValue) ==
    /\ Trim(inputValue) # <<>>
    /\ ~isLoading
    /\ handleSendMessage(Trim(inputValue))

\* ChatInterface: session is the active session or null.
showWelcome ==
    LET found == Find(chatSessions, activeChatId)
    IN  IF found = 0 THEN TRUE ELSE chatSessions[found].messages = <<>>

\* WelcomeScreen: a click on an example prompt calls onSendMessage directly.
onExampleClick(prompt) ==
    /\ showWelcome
    /\ handleSendMessage(prompt)

\* Mutant: the blank-title check is missing.
UsableTitle_NoTrim(resp) ==
    /\ resp.kind = "response"
    /\ Ok(resp)
    /\ resp.json # Unparseable
    /\ Has(resp.json, "title")
    /\ resp.json.title.typeof = "string"
    /\ resp.json.title.v # <<>>

\* Whether the title response carries a usable title:
\* data.title && typeof data.title === 'string' && data.title.trim() !== ''
UsableTitle(resp) ==
    /\ resp.kind = "response"
    /\ Ok(resp)
    /\ resp.json # Unparseable
    /\ Has(resp.json, "title")
    /\ resp.json.title.typeof = "string"
    /\ resp.json.title.v # <<>>
    /\ Trim(resp.json.title.v) # <<>>

\* The title fetch of turn t settles with resp: the title is set if usable,
\* every failure is swallowed, and the chat request is issued.
TitleSettles(t, resp) ==
    /\ turns[t].pc = "title"
    /\ chatSessions' = IF UsableTitle(resp)
                       THEN SetTitle(chatSessions, turns[t].chatToUpdateId, resp.json.title.v)
                       ELSE chatSessions
    /\ turns' = [turns EXCEPT ![t].pc = "chat",
                              ![t].request = ChatRequest(turns[t].messagesForApi)]
    /\ localStorage' = IF UsableTitle(resp) THEN StoredChats(chatSessions')
                       ELSE localStorage
    /\ UNCHANGED <<activeChatId, isLoading, now, server, bubble, startup>>

\* Whether the chat response yields an assistant message (else the catch runs).
AnswerOk(resp) ==
    /\ resp.kind = "response"
    /\ Ok(resp)
    /\ resp.json # Unparseable

\* Mutant: the result goes to the session selected when the fetch settles.
AnswerSettles_ActiveTarget(t, resp) ==
    LET message == [id |-> MsgId(now + 1), sender |-> ASSISTANT,
                    content |-> IF AnswerOk(resp) THEN resp.json ELSE ApologyContent]
    IN  /\ turns[t].pc = "chat"
        /\ chatSessions' = AppendMessage(chatSessions, activeChatId, message)
        /\ isLoading' = FALSE
        /\ turns' = [turns EXCEPT ![t] = [IdleTurn EXCEPT !.pc = "done",
                                                    !.chatToUpdateId = turns[t].chatToUpdateId,
                                                    !.isNewChat = turns[t].isNewChat]]
        /\ localStorage' = StoredChats(chatSessions')
        /\ UNCHANGED <<activeChatId, now, server, bubble, startup>>

\* Mutant: setIsLoading(false) ends the try block instead of sitting in finally.
AnswerSettles_NoFinally(t, resp) ==
    LET message == [id |-> MsgId(now + 1), sender |-> ASSISTANT,
                    content |-> IF AnswerOk(resp) THEN resp.json ELSE ApologyContent]
    IN  /\ turns[t].pc = "chat"
        /\ chatSessions' = AppendMessage(chatSessions, turns[t].chatToUpdateId, message)
        /\ isLoading' = IF AnswerOk(resp) THEN FALSE ELSE isLoading
        /\ turns' = [turns EXCEPT ![t] = [IdleTurn EXCEPT !.pc = "done",
                                                    !.chatToUpdateId = turns[t].chatToUpdateId,
                                                    !.isNewChat = turns[t].isNewChat]]
        /\ localStorage' = StoredChats(chatSessions')
        /\ UNCHANGED <<activeChatId, now, server, bubble, startup>>

\* The chat fetch of turn t settles with resp: the assistant message or the
\* error message is appended, and finally the busy flag is cleared.
AnswerSettles(t, resp) ==
    LET message == [id |-> MsgId(now + 1), sender |-> ASSISTANT,
                    content |-> IF AnswerOk(resp) THEN resp.json ELSE ApologyContent]
    IN  /\ turns[t].pc = "chat"
        /\ chatSessions' = AppendMessage(chatSessions, turns[t].chatToUpdateId, message)
        /\ isLoading' = FALSE
        /\ turns' = [turns EXCEPT ![t] = [IdleTurn EXCEPT !.pc = "done",
                                                    !.chatToUpdateId = turns[t].chatToUpdateId,
                                                    !.isNewChat = turns[t].isNewChat]]
        /\ localStorage' = StoredChats(chatSessions')
        /\ UNCHANGED <<activeChatId, now, server, bubble, startup>>

TitleCompletion(t) ==
    /\ turns[t].pc = "title"
    /\ \E resp \in TitleFetchResults(turns[t].messageText) : TitleSettles(t, resp)

AnswerCompletion(t) ==
    /\ turns[t].pc = "chat"
    /\ \E resp \in ChatFetchResults(turns[t].request) : AnswerSettles(t, resp)

Next ==
    \/ Tick
    \/ handleNewChat
    \/ \E id \in SessionIds : handleSelectChat(id)
    \/ \E id \in SessionIds : handleDeleteClick(id)
    \/ \E inputValue \in InputValues : handleSend(inputValue)
    \/ \E prompt \in ClickedPrompts : onExampleClick(prompt)
    \/ \E t \in TurnIds : TitleCompletion(t)
    \/ \E t \in TurnIds : AnswerCompletion(t)

Spec == Init /\ [][Next]_vars

\* The title endpoint's answer when the model words the title differently:
\* two title requests need not yield the same title.
OtherTitle == HttpResponse(200, [title |-> JStr(<<"Lead", SP, "Handling">>)])

\* The title fetch of turn t settles with the other title.
otherTitleArrives(t) ==
    /\ turns[t].pc = "title"
    /\ TitleSettles(t, OtherTitle)

TitledNext ==
    \/ Next
    \/ \E t \in TurnIds : otherTitleArrives(t)

\* The application with a title generator that has more than one wording.
TitledSpec == Init /\ [][TitledNext]_vars

(* --------------------------- MessageBubble.tsx ------------------------ *)

\* Fields of StructuredResponse, the debug fields apart.
ResponseFields ==
    {"summary", "steps", "notes", "sources", "clarification", "isNotFound", "isOutOfScope"}

DebugFields == {"debug_sliteQuery", "debug_sliteDocsFound"}

\* How a field occurs in a response: not at all, with its falsy or empty
\* value, or with a value that counts.
FieldChoices ==
    { c \in [ResponseFields \cup DebugFields -> {"absent", "empty", "full"}] :
          \A f \in DebugFields : c[f] # "empty" }

FieldValue(f, choice) ==
    CASE f = "summary" -> IF choice = "empty" THEN "" ELSE "X"
      [] f = "steps" -> IF choice = "empty" THEN <<>> ELSE <<"step 1", "step 2">>
      [] f = "notes" -> IF choice = "empty" THEN <<>> ELSE <<"note 1">>
      [] f = "sources" -> IF choice = "empty" THEN <<>> ELSE <<"Doc A">>
      [] f = "clarification" -> IF choice = "empty" THEN "" ELSE "Which one?"
      [] f = "isNotFound" -> choice = "full"
      [] f = "isOutOfScope" -> choice = "full"
      [] f = "debug_sliteQuery" -> "lead"
      [] f = "debug_sliteDocsFound" -> 0

\* The StructuredResponse holding exactly the fields c makes present.
ResponseOf(c) ==
    [f \in {"typeof"} \cup { g \in DOMAIN c : c[g] # "absent" } |->
        IF f = "typeof" THEN "object" ELSE FieldValue(f, c[f])]

StructuredResponses == { ResponseOf(c) : c \in FieldChoices }

\* response.isNotFound, response.isOutOfScope as a condition
Flag(response, f) == Has(response, f) /\ response[f]

\* response.clarification, response.summary as a condition
NonEmptyString(response, f) == Has(response, f) /\ response[f] # ""

\* Mutant: the length test is missing.
NonEmptyList_PresentOnly(response, f) == Has(response, f)

\* response.steps && response.steps.length > 0
NonEmptyList(response, f) == Has(response, f) /\ Len(response[f]) > 0

P(text) == [tag |-> "p", children |-> <<text>>]

Div(className, children) == [tag |-> "div", className |-> className, children |-> children]

\* <div><h3>heading</h3><ul>{items.map(...)}</ul></div>
ListBlock(heading, items) ==
    [tag |-> "div", heading |-> heading,
     items |-> [i \in 1..Len(items) |-> [tag |-> "li", children |-> <<items[i]>>]]]

NotFoundText == "I couldn't find an SOP that covers this. You can request one here: Request a New SOP"

OutOfScopeText ==
    "I can only answer using our internal SOPs. Would you like me to search for an SOP on this topic?"

\* <DebugInfo response={response} />
DebugInfo(response) ==
    IF ~Has(response, "debug_sliteQuery") \/ ~Has(response, "debug_sliteDocsFound")
    THEN <<>>
    ELSE << [tag |-> "DebugInfo", query |-> response.debug_sliteQuery,
             docsFound |-> response.debug_sliteDocsFound] >>

\* Mutant: the clarification is looked at before the two flags.
renderContent_ClarificationFirst(message) ==
    IF message.content.typeof = "string" THEN P(message.content.text)
    ELSE LET response == message.content
         IN  IF NonEmptyString(response, "clarification")
             THEN Div("", <<P(response.clarification)>> \o DebugInfo(response))
             ELSE IF Flag(response, "isNotFound")
             THEN Div("", <<P(NotFoundText)>> \o DebugInfo(response))
             ELSE IF Flag(response, "isOutOfScope")
             THEN Div("", <<P(OutOfScopeText)>> \o DebugInfo(response))
             ELSE Div("space-y-4", DebugInfo(response))

\* Mutant: an answer shows its lists and leaves the summary out.
renderContent_NoSummary(message) ==
    IF message.content.typeof = "string" THEN P(message.content.text)
    ELSE LET response == message.content
         IN  IF Flag(response, "isNotFound")
             THEN Div("", <<P(NotFoundText)>> \o DebugInfo(response))
             ELSE IF Flag(response, "isOutOfScope")
             THEN Div("", <<P(OutOfScopeText)>> \o DebugInfo(response))
             ELSE IF NonEmptyString(response, "clarification")
             THEN Div("", <<P(response.clarification)>> \o DebugInfo(response))
             ELSE Div("space-y-4",
                      (IF NonEmptyList(response, "steps")
                       THEN <<ListBlock("Steps:", response.steps)>> ELSE <<>>)
                      \o (IF NonEmptyList(response, "notes")
                          THEN <<ListBlock("Notes:", response.notes)>> ELSE <<>>)
                      \o (IF NonEmptyList(response, "sources")
                          THEN <<ListBlock("Sources:", response.sources)>> ELSE <<>>)
                      \o DebugInfo(response))

renderContent(message) ==
    IF message.content.typeof = "string" THEN P(message.content.text)
    ELSE LET response == message.content
         IN  IF Flag(response, "isNotFound")
             THEN Div("", <<P(NotFoundText)>> \o DebugInfo(response))
             ELSE IF Flag(response, "isOutOfScope")
             THEN Div("", <<P(OutOfScopeText)>> \o DebugInfo(response))
             ELSE IF NonEmptyString(response, "clarification")
             THEN Div("", <<P(response.clarification)>> \o DebugInfo(response))
             ELSE Div("space-y-4",
                      (IF NonEmptyString(response, "summary")
                       THEN <<P(response.summary)>> ELSE <<>>)
                      \o (IF NonEmptyList(response, "steps")
                          THEN <<ListBlock("Steps:", response.steps)>> ELSE <<>>)
                      \o (IF NonEmptyList(response, "notes")
                          THEN <<ListBlock("Notes:", response.notes)>> ELSE <<>>)
                      \o (IF NonEmptyList(response, "sources")
                          THEN <<ListBlock("Sources:", response.sources)>> ELSE <<>>)
                      \o DebugInfo(response))

LoadingText == <<"loading">>

\* The component: the loading indicator, or the bubble around renderContent().
MessageBubble(message) ==
    IF message.sender = ASSISTANT /\ message.content.typeof = "string"
       /\ message.content.text = LoadingText
    THEN [justify |-> "start", body |-> [tag |-> "LoadingIndicator"]]
    ELSE [justify |-> IF message.sender = USER THEN "end" ELSE "start",
          body |-> renderContent(message)]

\* The messages a bubble is mounted with.
BubbleMessages ==
    { [id |-> MsgId(1), sender |-> ASSISTANT, content |-> content] :
          content \in StructuredResponses \cup {ApologyContent, TextContent(LoadingText)} }
      \cup { [id |-> MsgId(0), sender |-> USER, content |-> TextContent(text)] :
                 text \in ClickedPrompts }

\* A bubble is mounted with some message and nothing else goes on.
BubbleInit ==
    /\ chatSessions = <<>>
    /\ activeChatId = NULL
    /\ isLoading = FALSE
    /\ turns = [t \in TurnIds |-> IdleTurn]
    /\ now = 0
    /\ server = ServerOff
    /\ bubble \in { [pc |-> "mounted", message |-> message] : message \in BubbleMessages }
    /\ localStorage = StoredChats(chatSessions)
    /\ startup = Ready(FALSE)

\* React renders the bubble.
renderBubble ==
    /\ bubble.pc = "mounted"
    /\ bubble' = [pc |-> "rendered", message |-> bubble.message,
                  view |-> MessageBubble(bubble.message)]
    /\ UNCHANGED <<chatSessions, activeChatId, isLoading, turns, now, server,
                 localStorage, startup>>

BubbleNext == renderBubble

BubbleSpec == BubbleInit /\ [][BubbleNext]_vars

(* ------------------- api/chat.ts, one invocation end to end ----------- *)

\* Largest number of hits of a search.
MaxHits == 2

\* Titles of the notes of the workspace, by position in a hit list.
DocTitles == <<"Doc A", "Doc B", "Doc C", "Doc D">>

\* Outcomes of the detail fetch of the i-th hit: the note, a non-2xx status,
\* a rejected fetch, a body res.json() cannot read.
DetailOutcomes(i) ==
    { [kind |-> "ok", title |-> DocTitles[i], plaintext |-> <<"l", "e", "a", "d", DocTitles[i]>>],
      [kind |-> "notok"], [kind |-> "reject"], [kind |-> "badjson"] }

\* The hit lists of a search, each hit with the outcome of its detail fetch.
HitLists ==
    UNION { { hits \in [1..n -> UNION { DetailOutcomes(i) : i \in 1..n }] :
                  \A i \in 1..n : hits[i] \in DetailOutcomes(i) } : n \in 0..MaxHits }

\* Outcomes of the search call: rejected, non-2xx, or a body with no data,
\* with data that is no array, or with a list of hits.
SearchCases ==
    { [kind |-> "reject"], [kind |-> "notok"], [kind |-> "ok"],
      [kind |-> "ok", data |-> JStr(<<"none">>)] }
      \cup { [kind |-> "ok", data |-> JArr(hits)] : hits \in HitLists }

\* Outcomes of generateContent: a throw, a response without text, a text
\* that is no JSON, JSON that is no object, a schema-shaped object.
ChatGenCases ==
    { [kind |-> "throw"],
      [kind |-> "undefined"],
      [kind |-> "text", json |-> Unparseable],
      [kind |-> "text", json |-> JNum(42)],
      [kind |-> "text", json |-> [typeof |-> "object", summary |-> "X",
                                  sources |-> <<DocTitles[1]>>]] }

\* The first user message of a run and the answer that may follow it.
FirstUserMessage ==
    [id |-> MsgId(0), sender |-> USER, content |-> TextContent(examplePrompts[1])]

FirstAnswer ==
    [id |-> MsgId(1), sender |-> ASSISTANT,
     content |-> [typeof |-> "object", summary |-> "X"]]

\* An earlier answer that asked the user a question.
ClarifyingAnswer ==
    [id |-> MsgId(1), sender |-> ASSISTANT,
     content |-> [typeof |-> "object", summary |-> "X",
                  clarification |-> <<"Which", SP, "lead", SP, "source?">>]]

\* Requests the endpoint can receive: those of the orchestrator and others.
ServerRequests ==
    { [method |-> method, body |-> body] :
          method \in {"POST", "GET"},
          body \in { NoBody,
                     [other |-> JNum(0)],
                     [messages |-> JStr(<<"hi">>)],
                     [messages |-> JArr(<<>>)],
                     [messages |-> JArr(<<FirstUserMessage, FirstAnswer>>)],
                     [messages |-> JArr(<<[FirstUserMessage EXCEPT !.content = FirstAnswer.content]>>)],
                     [messages |-> JArr(<<FirstUserMessage>>)],
                     [messages |-> JArr(<<FirstUserMessage, FirstAnswer, FirstUserMessage>>)],
                     [messages |-> JArr(<<FirstUserMessage, ClarifyingAnswer, FirstUserMessage>>)] } }

\* The first turn of a run awaits its answer (title request settled without a
\* title), and the endpoint has received some request in some environment.
ChatEndpointInit ==
    /\ chatSessions = << [id |-> ChatId(0), title |-> FallbackTitle(examplePrompts[1]),
                          messages |-> <<FirstUserMessage>>] >>
    /\ activeChatId = ChatId(0)
    /\ isLoading = TRUE
    /\ turns = [t \in TurnIds |->
                   IF t = 1
                   THEN [pc |-> "chat", chatToUpdateId |-> ChatId(0), isNewChat |-> TRUE,
                         messageText |-> examplePrompts[1],
                         messagesForApi |-> <<FirstUserMessage>>,
                         request |-> ChatRequest(<<FirstUserMessage>>)]
                   ELSE IdleTurn]
    /\ now = 0
    /\ bubble = NoBubble
    /\ server \in { [pc |-> "received", req |-> req, env |-> env,
                     search |-> search, gen |-> gen] :
                        req \in ServerRequests, env \in Envs,
                        search \in SearchCases, gen \in ChatGenCases }
    /\ localStorage = StoredChats(chatSessions)
    /\ startup = Ready(FALSE)

\* The endpoint handles the request it received.
serveChat ==
    /\ server.pc = "received"
    /\ server' = [pc |-> "responded", req |-> server.req, env |-> server.env,
                  search |-> server.search, gen |-> server.gen,
                  result |-> ChatHandler(server.req.method, server.req.body,
                                         server.env, server.search, server.gen)]
    /\ UNCHANGED <<chatSessions, activeChatId, isLoading, turns, now, bubble,
                 localStorage, startup>>

\* The response to the request of the waiting turn reaches the orchestrator.
deliverResponse ==
    /\ server.pc = "responded"
    /\ turns[1].pc = "chat"
    /\ server.req = [method |-> turns[1].request.method, body |-> turns[1].request.body]
    /\ AnswerSettles(1, server.result.response)

ChatEndpointNext == serveChat \/ deliverResponse

ChatEndpointSpec == ChatEndpointInit /\ [][ChatEndpointNext]_vars

(* --------------- fetchSopsFromSlite, the detail fetches step by step ---- *)

\* A plaintext of n characters.
Plaintext(n) == [i \in 1..n |-> "a"]

\* Lengths of the plaintexts of the notes: short ones and those around the limit.
PlainLengths == {4} \cup ((ContentLimit - 1)..(ContentLimit + 2))

\* Outcomes of the detail fetch of the i-th hit, the note with its plaintext.
NoteOutcomes(i) ==
    { [kind |-> "ok", title |-> DocTitles[i], plaintext |-> Plaintext(n)] : n \in PlainLengths }
      \cup { [kind |-> "notok"], [kind |-> "reject"], [kind |-> "badjson"] }

\* notesList, each hit with the outcome its detail fetch is going to have.
NoteLists ==
    UNION { { hits \in [1..n -> UNION { NoteOutcomes(i) : i \in 1..n }] :
                  \A i \in 1..n : hits[i] \in NoteOutcomes(i) } : n \in 0..MaxHits }

\* The search has returned its body; nothing else goes on.
RetrievalInit ==
    /\ chatSessions = <<>>
    /\ activeChatId = NULL
    /\ isLoading = FALSE
    /\ turns = [t \in TurnIds |-> IdleTurn]
    /\ now = 0
    /\ bubble = NoBubble
    /\ server \in { [pc |-> "found", hits |-> hits, issued |-> {}, settled |-> {},
                       order |-> <<>>] :
                        hits \in NoteLists }
    /\ localStorage = StoredChats(chatSessions)
    /\ startup = Ready(FALSE)

\* An empty hit list: return "[]" without a detail fetch.
returnEmpty ==
    /\ server.pc = "found"
    /\ server.hits = <<>>
    /\ server' = [server EXCEPT !.pc = "returned"] @@ [sops |-> <<>>]
    /\ UNCHANGED <<chatSessions, activeChatId, isLoading, turns, now, bubble,
                 localStorage, startup>>

\* notesList.map(...): every detail fetch is started, then Promise.all is awaited.
issueDetailFetches ==
    /\ server.pc = "found"
    /\ server.hits # <<>>
    /\ server' = [server EXCEPT !.pc = "joining", !.issued = DOMAIN server.hits]
    /\ UNCHANGED <<chatSessions, activeChatId, isLoading, turns, now, bubble,
                 localStorage, startup>>

\* The promise of one detail fetch settles: with the note, with null, or rejected;
\* order lists the fetches as they settle.
\* A fetch still in flight when the retrieval has thrown settles all the same.
settleDetail(i) ==
    /\ server.pc \in {"joining", "threw"}
    /\ i \in server.issued \ server.settled
    /\ server' = [server EXCEPT !.settled = @ \cup {i}, !.order = Append(@, i)]
    /\ UNCHANGED <<chatSessions, activeChatId, isLoading, turns, now, bubble,
                 localStorage, startup>>

\* Mutant: the results are taken in the order in which the fetches settled.
joinDetails_CompletionOrder ==
    /\ server.pc = "joining"
    /\ IF \E i \in server.settled : server.hits[i].kind \in {"reject", "badjson"}
       THEN server' = [server EXCEPT !.pc = "threw"]
       ELSE /\ server.settled = DOMAIN server.hits
            /\ LET kept == FilterOk([k \in 1..Len(server.order) |-> server.hits[server.order[k]]])
               IN  server' = [server EXCEPT !.pc = "returned"]
                               @@ [sops |-> [i \in 1..Len(kept) |->
                                               [title |-> kept[i].title,
                                                content |-> TruncateContent(kept[i].plaintext)]]]
    /\ UNCHANGED <<chatSessions, activeChatId, isLoading, turns, now, bubble,
                 localStorage, startup>>

\* await Promise.all(...) resumes: rejected as soon as one promise has rejected,
\* fulfilled when all are fulfilled; then filter(Boolean) and the formatting.
joinDetails ==
    /\ server.pc = "joining"
    /\ IF \E i \in server.settled : server.hits[i].kind \in {"reject", "badjson"}
       THEN server' = [server EXCEPT !.pc = "threw"]
       ELSE /\ server.settled = DOMAIN server.hits
            /\ LET kept == FilterOk(server.hits)
               IN  server' = [server EXCEPT !.pc = "returned"]
                               @@ [sops |-> [i \in 1..Len(kept) |->
                                               [title |-> kept[i].title,
                                                content |-> TruncateContent(kept[i].plaintext)]]]
    /\ UNCHANGED <<chatSessions, activeChatId, isLoading, turns, now, bubble,
                 localStorage, startup>>

RetrievalNext ==
    \/ returnEmpty
    \/ issueDetailFetches
    \/ \E i \in 1..MaxHits : settleDetail(i)
    \/ joinDetails

RetrievalSpec == RetrievalInit /\ [][RetrievalNext]_vars

(* --------------------- App.tsx, start with stored data ---------------- *)

\* A session stored by an earlier run of the application.
EarlierSession ==
    [id |-> ChatId(-1), title |-> <<"Earlier", SP, "chat">>,
     messages |-> << [id |-> MsgId(-2), sender |-> USER,
                      content |-> TextContent(examplePrompts[1])],
                     [id |-> MsgId(-1), sender |-> ASSISTANT,
                      content |-> [typeof |-> "object", summary |-> "X"]] >>]

\* What localStorage can hold under 'chatSessions' when the page loads:
\* nothing, the empty string, text that is no JSON, JSON that is no array,
\* an array of sessions.
StoredItems ==
    { Missing,
      [kind |-> "empty"],
      [kind |-> "text", json |-> Unparseable],
      [kind |-> "text", json |-> JNum(7)],
      [kind |-> "text", json |-> [typeof |-> "object"]],
      StoredChats(<<>>),
      StoredChats(<<EarlierSession>>) }

\* The item is the text of an array.
StoredArray(item) == item.kind = "text" /\ item.json # Unparseable /\ item.json.typeof = "array"

\* Mutant: JSON.parse is not guarded by try / catch.
LoadChats_NoCatch(storedChats) ==
    IF storedChats.kind \in {"missing", "empty"}
    THEN [uncaught |-> FALSE, sessions |-> <<>>, active |-> NULL]
    ELSE IF storedChats.json = Unparseable
    THEN [uncaught |-> TRUE, sessions |-> <<>>, active |-> NULL]
    ELSE IF storedChats.json.typeof # "array"
    THEN [uncaught |-> FALSE, sessions |-> <<>>, active |-> NULL]
    ELSE LET parsedChats == storedChats.json.v
         IN  [uncaught |-> FALSE, sessions |-> parsedChats,
              active |-> IF Len(parsedChats) > 0 THEN parsedChats[1].id ELSE NULL]

\* Mutant: the last stored session is selected at startup.
LoadChats_SelectLast(storedChats) ==
    IF storedChats.kind \in {"missing", "empty"}
    THEN [uncaught |-> FALSE, sessions |-> <<>>, active |-> NULL]
    ELSE IF storedChats.json = Unparseable
    THEN [uncaught |-> FALSE, sessions |-> <<>>, active |-> NULL]
    ELSE IF storedChats.json.typeof # "array"
    THEN [uncaught |-> FALSE, sessions |-> <<>>, active |-> NULL]
    ELSE LET parsedChats == storedChats.json.v
         IN  [uncaught |-> FALSE, sessions |-> parsedChats,
              active |-> IF Len(parsedChats) > 0 THEN parsedChats[Len(parsedChats)].id
                         ELSE NULL]

\* The load effect: the sessions and the selection it sets, and whether an
\* error leaves the effect (the catch takes the error of JSON.parse).
LoadChats(storedChats) ==
    IF storedChats.kind \in {"missing", "empty"}
    THEN [uncaught |-> FALSE, sessions |-> <<>>, active |-> NULL]
    ELSE IF storedChats.json = Unparseable
    THEN [uncaught |-> FALSE, sessions |-> <<>>, active |-> NULL]
    ELSE IF storedChats.json.typeof # "array"
    THEN [uncaught |-> FALSE, sessions |-> <<>>, active |-> NULL]
    ELSE LET parsedChats == storedChats.json.v
         IN  [uncaught |-> FALSE, sessions |-> parsedChats,
              active |-> IF Len(parsedChats) > 0 THEN parsedChats[1].id ELSE NULL]

\* The page has loaded and the component is about to mount.
PersistInit ==
    /\ chatSessions = <<>>
    /\ activeChatId = NULL
    /\ isLoading = FALSE
    /\ turns = [t \in TurnIds |-> IdleTurn]
    /\ now = 0
    /\ server = ServerOff
    /\ bubble = NoBubble
    /\ localStorage \in StoredItems
    /\ startup = [pc |-> "mounting"]

\* The first render with its effects: the load effect reads the item and sets
\* the state, the save effect writes the sessions of each render, the last
\* being the one with the loaded sessions.  An error leaving an effect takes
\* the application down.
mount ==
    /\ startup.pc = "mounting"
    /\ LET loaded == LoadChats(localStorage)
       IN  IF loaded.uncaught
           THEN /\ startup' = [pc |-> "crashed"]
                /\ UNCHANGED <<chatSessions, activeChatId, localStorage>>
           ELSE /\ chatSessions' = loaded.sessions
                /\ activeChatId' = loaded.active
                /\ localStorage' = StoredChats(chatSessions')
                /\ startup' = Ready(~(localStorage.kind \in {"missing", "empty"}
                                        \/ StoredArray(localStorage)))
    /\ UNCHANGED <<isLoading, turns, now, server, bubble>>

PersistNext ==
    \/ mount
    \/ startup.pc = "ready" /\ Next

PersistSpec == PersistInit /\ [][PersistNext]_vars

\* The page is loaded again: the component state is gone and starts from its
\* initial values, localStorage stays.  The continuations of the requests in
\* flight belong to the page that is gone and never run.
reload ==
    /\ startup.pc # "mounting"
    /\ chatSessions' = <<>>
    /\ activeChatId' = NULL
    /\ isLoading' = FALSE
    /\ turns' = [t \in TurnIds |->
                    IF turns[t].pc \in {"title", "chat"}
                    THEN [IdleTurn EXCEPT !.pc = "gone"]
                    ELSE turns[t]]
    /\ startup' = [pc |-> "mounting"]
    /\ UNCHANGED <<now, server, bubble, localStorage>>

ReloadNext ==
    \/ PersistNext
    \/ reload

ReloadSpec == Init /\ [][ReloadNext]_vars

(* ------------------------------ properties ---------------------------- *)

InFlight(t) == turns[t].pc \in {"title", "chat"}

IsPrefix(a, b) == Len(a) <= Len(b) /\ SubSeq(b, 1, Len(a)) = a

\* The model turn the chat endpoint is to forward for one message of the history.
ExpectedTurn(msg) ==
    [role |-> IF msg.sender = USER THEN "user" ELSE "model",
     parts |-> << [text |-> IF msg.content.typeof = "string"
                            THEN msg.content.text
                            ELSE Stringify(msg.content)] >>]

\* A turn starts: its history is the message list of its session right after
\* the user message was appended; the history never changes while the turn runs.
C1_Step ==
    \A t \in TurnIds :
        /\ (turns[t].pc = "idle" /\ turns'[t].pc # "idle") =>
               LET i == Find(chatSessions', turns'[t].chatToUpdateId)
                   history == turns'[t].messagesForApi
               IN  /\ i # 0
                   /\ history = chatSessions'[i].messages
                   /\ history[Len(history)].sender = USER
                   /\ history[Len(history)].content = TextContent(turns'[t].messageText)
        /\ (InFlight(t) /\ turns'[t].pc # "done") =>
               turns'[t].messagesForApi = turns[t].messagesForApi

\* The chat request carries that history, and whenever the endpoint reaches
\* the model call it forwards one turn per message, in order.
C1_State ==
    \A t \in TurnIds :
        turns[t].request.sent =>
            /\ turns[t].request.body.messages = JArr(turns[t].messagesForApi)
            /\ \A env \in Envs, search \in SearchOutcomes, gen \in ChatGenOutcomes :
                   LET r == ChatHandler(turns[t].request.method, turns[t].request.body,
                                        env, search, gen)
                       history == turns[t].messagesForApi
                   IN  r.model.called =>
                           /\ Len(r.model.contents) = Len(history)
                           /\ \A i \in 1..Len(history) :
                                  r.model.contents[i] = ExpectedTurn(history[i])

\* C1: the message history sent with a turn's answer request, and forwarded by
\* the chat endpoint to the model one turn per message, equals the session's
\* message list immediately after that turn's user message was appended.
C1_HistoryIsSessionSnapshot == [][C1_Step]_vars /\ []C1_State

\* C1 witness: the chat request of a follow-up turn is in flight with the
\* history user, assistant, user.
C1_Witness ==
    \E t \in TurnIds :
        /\ turns[t].pc = "chat"
        /\ ~turns[t].isNewChat
        /\ Len(turns[t].messagesForApi) = 3
        /\ turns[t].messagesForApi[2].sender = ASSISTANT

\* C2 (as claimed): a turn that has started has issued its answer request,
\* whether or not its title request has settled.
C2_AnswerNotGatedOnTitle ==
    \A t \in TurnIds : InFlight(t) => turns[t].request.sent

\* C3 (as claimed): while the title result of a turn is outstanding its answer
\* result can be applied, so either completion order can occur.
C3_EitherOrderPossible ==
    \A t \in TurnIds : turns[t].pc = "title" => ENABLED AnswerCompletion(t)

\* C4 (as claimed): at most one turn is in flight at any time.
C4_AtMostOneTurnInFlight ==
    Cardinality({ t \in TurnIds : InFlight(t) }) <= 1

\* C5 (as claimed): no session id has two turns in flight at once.
C5_OneTurnPerSession ==
    \A t, u \in TurnIds :
        (t # u /\ InFlight(t) /\ InFlight(u)) =>
            turns[t].chatToUpdateId # turns[u].chatToUpdateId

\* The last message of session i is from sender.
LastFrom(i, sender) ==
    /\ chatSessions[i].messages # <<>>
    /\ chatSessions[i].messages[Len(chatSessions[i].messages)].sender = sender

C6_Step ==
    \A t \in TurnIds :
        (turns[t].pc = "chat" /\ turns'[t].pc = "done") =>
            /\ Len(chatSessions') = Len(chatSessions)
            /\ \A i \in 1..Len(chatSessions) :
                   IF chatSessions[i].id = turns[t].chatToUpdateId
                   THEN LET old == chatSessions[i].messages
                            new == chatSessions'[i].messages
                        IN  /\ chatSessions'[i].id = chatSessions[i].id
                            /\ Len(new) = Len(old) + 1
                            /\ IsPrefix(old, new)
                            /\ new[Len(new)].sender = ASSISTANT
                   ELSE chatSessions'[i] = chatSessions[i]

\* C6: when a turn's answer fetch settles, the assistant message (or apology)
\* is appended to the sessions carrying the id captured at the start of the
\* turn and to no other session, whichever session is selected by then.
C6_ResultLandsInCapturedSession == [][C6_Step]_vars

\* C6 witness: a turn has finished and its session ends with the assistant
\* message, while another session is selected and still waits for its answer.
C6_Witness ==
    \E t, u \in TurnIds, i, j \in 1..Len(chatSessions) :
        /\ turns[t].pc = "done" /\ InFlight(u)
        /\ chatSessions[i].id = turns[t].chatToUpdateId
        /\ chatSessions[j].id = turns[u].chatToUpdateId
        /\ chatSessions[i].id # chatSessions[j].id
        /\ activeChatId = chatSessions[j].id
        /\ ~isLoading
        /\ LastFrom(i, ASSISTANT)
        /\ LastFrom(j, USER)

\* Every session that survives a step keeps its messages as a prefix of its
\* new messages.  A new session is put in front, a deletion removes records.
C7_Step ==
    LET old == chatSessions
        new == chatSessions'
    IN  IF Len(new) = Len(old) + 1
        THEN \A i \in 1..Len(old) :
                 new[i + 1].id = old[i].id /\ IsPrefix(old[i].messages, new[i + 1].messages)
        ELSE IF Len(new) = Len(old)
        THEN \A i \in 1..Len(old) :
                 new[i].id = old[i].id /\ IsPrefix(old[i].messages, new[i].messages)
        ELSE /\ Len(new) < Len(old)
             /\ \A j \in 1..Len(new) : \E i \in 1..Len(old) : new[j] = old[i]
             /\ \A i \in 1..Len(old) :
                    (\E j \in 1..Len(new) : new[j].id = old[i].id) =>
                        \E j \in 1..Len(new) : new[j] = old[i]

\* C7: messages are append-only: over every step, the message sequence of
\* every session that exists before and after it is a prefix of its new one.
C7_AppendOnly == [][C7_Step]_vars

\* C7 witness: a session to which a user message, an assistant message and a
\* second user message were appended in turn.
C7_Witness ==
    \E i \in 1..Len(chatSessions) :
        /\ Len(chatSessions[i].messages) = 3
        /\ chatSessions[i].messages[1].sender = USER
        /\ chatSessions[i].messages[2].sender = ASSISTANT
        /\ chatSessions[i].messages[3].sender = USER

\* The answer request failed: transport error, non-2xx status or unreadable body.
FailedFetch(resp) ==
    \/ resp.kind = "reject"
    \/ /\ resp.kind = "response"
       /\ (resp.status < 200 \/ resp.status > 299 \/ resp.json = Unparseable)

\* The step appended exactly the apology to the sessions with the turn's id,
\* changed nothing else of the sessions and cleared the busy flag.
C8_Post(t) ==
    /\ isLoading' = FALSE
    /\ Len(chatSessions') = Len(chatSessions)
    /\ \A i \in 1..Len(chatSessions) :
           IF chatSessions[i].id = turns[t].chatToUpdateId
           THEN LET old == chatSessions[i].messages
                    new == chatSessions'[i].messages
                IN  /\ chatSessions'[i].id = chatSessions[i].id
                    /\ chatSessions'[i].title = chatSessions[i].title
                    /\ Len(new) = Len(old) + 1
                    /\ IsPrefix(old, new)
                    /\ new[Len(new)].sender = ASSISTANT
                    /\ new[Len(new)].content = ApologyContent
           ELSE chatSessions'[i] = chatSessions[i]

\* C8: a turn whose answer request fails appends exactly one assistant
\* message, the fixed apology, to its session, and clears the busy flag.
C8_FailureAppendsOneApology ==
    \A t \in TurnIds :
        turns[t].pc = "chat" =>
            \A resp \in ChatFetchResults(turns[t].request) :
                FailedFetch(resp) =>
                    /\ ENABLED AnswerSettles(t, resp)
                    /\ ~ENABLED (AnswerSettles(t, resp) /\ ~C8_Post(t))

\* C8 witness: a finished turn whose session ends with the apology, the busy
\* flag being clear.
C8_Witness ==
    \E t \in TurnIds, i \in 1..Len(chatSessions) :
        /\ turns[t].pc = "done"
        /\ chatSessions[i].id = turns[t].chatToUpdateId
        /\ LastFrom(i, ASSISTANT)
        /\ chatSessions[i].messages[Len(chatSessions[i].messages)].content = ApologyContent
        /\ Len(chatSessions[i].messages) = 2
        /\ ~isLoading

\* Each fetch a turn issues eventually settles.
Fairness ==
    \A t \in TurnIds : WF_vars(TitleCompletion(t)) /\ WF_vars(AnswerCompletion(t))

LiveSpec == Spec /\ Fairness

\* The step on which a turn returns leaves the busy flag cleared.
C9_Step ==
    \A t \in TurnIds : (InFlight(t) /\ turns'[t].pc = "done") => ~isLoading'

\* C9: every turn, once started, eventually returns, and the step on which
\* it returns clears the busy flag, provided each of its network calls
\* eventually settles. A turn in flight can only leave that state by
\* returning, so "infinitely often not in flight" is "eventually returned".
C9_TurnEventuallyClearsBusy ==
    /\ \A t \in TurnIds : []<>(~InFlight(t))
    /\ [][C9_Step]_vars

\* C9 witness: a new-chat turn has returned with the busy flag clear although
\* its session was deleted meanwhile.
C9_Witness ==
    \E t \in TurnIds :
        /\ turns[t].pc = "done"
        /\ turns[t].isNewChat
        /\ turns[t].chatToUpdateId \notin SessionIds
        /\ ~isLoading

\* The title request failed or yielded an empty or blank title.
TitleFailedOrBlank(resp) ==
    \/ resp.kind = "reject"
    \/ /\ resp.kind = "response"
       /\ \/ resp.status < 200 \/ resp.status > 299
          \/ resp.json = Unparseable
          \/ /\ resp.json # Unparseable
             /\ Has(resp.json, "title")
             /\ resp.json.title.typeof = "string"
             /\ Trim(resp.json.title.v) = <<>>

\* The step left every session as it was and issued the chat request.
C10_Post(t) ==
    /\ chatSessions' = chatSessions
    /\ isLoading' = isLoading
    /\ turns'[t].pc = "chat"
    /\ turns'[t].request = ChatRequest(turns[t].messagesForApi)

\* C10: if the title request fails or yields an empty or blank title, the
\* session keeps its fallback title, no message is appended because of it and
\* the answer request of the turn is issued.  While the title request of the
\* only turn that created a session id is outstanding, the title is the
\* fallback title of its message.
C10_TitleFailureIsSilent ==
    \A t \in TurnIds :
        turns[t].pc = "title" =>
            /\ \A resp \in TitleFetchResults(turns[t].messageText) :
                   TitleFailedOrBlank(resp) =>
                       /\ ENABLED TitleSettles(t, resp)
                       /\ ~ENABLED (TitleSettles(t, resp) /\ ~C10_Post(t))
            /\ (\A u \in TurnIds \ {t} :
                    ~(turns[u].isNewChat /\ turns[u].chatToUpdateId = turns[t].chatToUpdateId))
                   => \A i \in 1..Len(chatSessions) :
                          chatSessions[i].id = turns[t].chatToUpdateId =>
                              chatSessions[i].title = FallbackTitle(turns[t].messageText)

\* C10 witness: the chat request of a new-chat turn is in flight, its session
\* still has the fallback title and holds the user message alone.
C10_Witness ==
    \E t \in TurnIds, i \in 1..Len(chatSessions) :
        /\ turns[t].pc = "chat"
        /\ turns[t].isNewChat
        /\ turns[t].request.sent
        /\ chatSessions[i].id = turns[t].chatToUpdateId
        /\ chatSessions[i].title = FallbackTitle(turns[t].messageText)
        /\ Len(chatSessions[i].messages) = 1
        /\ \A u \in TurnIds \ {t} : turns[u].pc = "idle"

\* Every id `chat-${Date.now()}` can take.
ChatIds == { ChatId(n) : n \in 0..MaxTime }

\* Sessions without those carrying chatId, the others in their order.
RECURSIVE Without(_, _)
Without(sessions, chatId) ==
    IF sessions = <<>> THEN <<>>
    ELSE (IF Head(sessions).id = chatId THEN <<>> ELSE <<Head(sessions)>>)
             \o Without(Tail(sessions), chatId)

\* What a deletion of chatId is to leave behind.
C11_Post(chatId) ==
    /\ chatSessions' = Without(chatSessions, chatId)
    /\ activeChatId = chatId => activeChatId' = NULL
    /\ activeChatId # chatId => activeChatId' = activeChatId
    /\ chatId \notin SessionIds =>
           chatSessions' = chatSessions /\ activeChatId' = activeChatId

\* C11: deleting the selected session sets the selection to none, deleting
\* another session leaves the selection unchanged, and deleting an id that is
\* not in the session set changes neither the session set nor the selection.
C11_DeleteAndSelection ==
    \A chatId \in ChatIds :
        /\ ENABLED handleDeleteChat(chatId)
        /\ ~ENABLED (handleDeleteChat(chatId) /\ ~C11_Post(chatId))

\* C11 witness: the session a turn created (and selected) has been deleted
\* while another session is still listed, and nothing is selected.
C11_Witness ==
    \E t \in TurnIds :
        /\ turns[t].isNewChat
        /\ turns[t].chatToUpdateId \notin SessionIds
        /\ chatSessions # <<>>
        /\ activeChatId = NULL

\* A completion of a turn whose session id is not listed changes no session.
C12_Step ==
    \A t \in TurnIds :
        (/\ InFlight(t)
         /\ turns'[t].pc # turns[t].pc
         /\ turns[t].chatToUpdateId \notin SessionIds)
            => chatSessions' = chatSessions

SpacesOf(text) == { i \in 1..Len(text) : text[i] = SP }

\* The part of text in front of its n-th space, all of it if it has fewer:
\* its first n space-separated words.
FirstWords(text, n) ==
    IF Cardinality(SpacesOf(text)) < n THEN text
    ELSE LET cut == CHOOSE i \in SpacesOf(text) :
                        Cardinality({ j \in SpacesOf(text) : j <= i }) = n
         IN  SubSeq(text, 1, cut - 1)

\* A turn submitted while nothing is selected puts one new session in front:
\* it holds the user message alone, is titled with the first five words and
\* is selected; of the turn's requests only the title request is out.
C13_Create ==
    \A t \in TurnIds :
        (turns[t].pc = "idle" /\ turns'[t].pc # "idle" /\ activeChatId = NULL) =>
            LET new == chatSessions'[1]
            IN  /\ Len(chatSessions') = Len(chatSessions) + 1
                /\ Tail(chatSessions') = chatSessions
                /\ Len(new.messages) = 1
                /\ new.messages[1].sender = USER
                /\ new.messages[1].content = TextContent(turns'[t].messageText)
                /\ new.title = FirstWords(turns'[t].messageText, FallbackWords)
                /\ activeChatId' = new.id
                /\ turns'[t].chatToUpdateId = new.id
                /\ turns'[t].pc = "title"
                /\ ~turns'[t].request.sent

\* A title changes only when the title request of a turn holding the
\* session's id settles, and then to a title that is not blank.
C13_TitleKept ==
    IF Len(chatSessions') = Len(chatSessions)
    THEN \A i \in 1..Len(chatSessions) :
             chatSessions'[i].title # chatSessions[i].title =>
                 /\ Trim(chatSessions'[i].title) # <<>>
                 /\ \E t \in TurnIds :
                        /\ turns[t].pc = "title" /\ turns'[t].pc = "chat"
                        /\ turns[t].chatToUpdateId = chatSessions[i].id
    ELSE IF Len(chatSessions') > Len(chatSessions)
    THEN Tail(chatSessions') = chatSessions
    ELSE \A j \in 1..Len(chatSessions') :
             \E i \in 1..Len(chatSessions) : chatSessions'[j] = chatSessions[i]

\* Messages a user can submit: one word, exactly five words, a doubled space
\* among more than five words.
TitleTexts ==
    { <<"FUB">>,
      <<"Where", SP, "is", SP, "the", SP, "FUB", SP, "SOP?">>,
      <<"Where", SP, SP, "is", SP, "the", SP, "FUB", SP, "SOP", SP, "now?">> }

\* split(' ').slice(0, 5).join(' ') yields the first five space-separated words.
C13_Words ==
    \A text \in TitleTexts \cup ClickedPrompts :
        FallbackTitle(text) = FirstWords(text, FallbackWords)

\* C13: submitting a message while no session is selected adds exactly one
\* session that holds exactly that user message, is titled with the first
\* five space-separated words of the message and becomes the selected
\* session, in the step that precedes every network result of the turn; the
\* title then stays as it is until a title completion with a non-blank title
\* overwrites it.
C13_NewSessionWithFallbackTitle ==
    [][C13_Create /\ C13_TitleKept]_vars /\ []C13_Words

\* C13 witness: the selected session was just created by a turn whose title
\* request is outstanding; its title is the first five words of a longer
\* message.
C13_Witness ==
    \E t \in TurnIds :
        /\ turns[t].pc = "title"
        /\ chatSessions # <<>>
        /\ chatSessions[1].id = turns[t].chatToUpdateId
        /\ activeChatId = chatSessions[1].id
        /\ Len(chatSessions[1].messages) = 1
        /\ chatSessions[1].title = FirstWords(turns[t].messageText, FallbackWords)
        /\ chatSessions[1].title # turns[t].messageText

\* Number of user messages among messages.
UserCount(messages) ==
    Cardinality({ k \in 1..Len(messages) : messages[k].sender = USER })

\* The step that starts turn t appends the turn's user message, once, to the
\* turn's session (a new session holds it alone), and with it the turn's
\* first request is out.
C14_Start(t) ==
    LET text == turns'[t].messageText
        id == turns'[t].chatToUpdateId
    IN  /\ turns'[t].pc \in {"title", "chat"}
        /\ id \in { chatSessions'[i].id : i \in 1..Len(chatSessions') }
        /\ IF activeChatId = NULL
           THEN /\ Tail(chatSessions') = chatSessions
                /\ chatSessions'[1].id = id
                /\ Len(chatSessions'[1].messages) = 1
                /\ chatSessions'[1].messages[1].sender = USER
                /\ chatSessions'[1].messages[1].content = TextContent(text)
           ELSE /\ Len(chatSessions') = Len(chatSessions)
                /\ \A i \in 1..Len(chatSessions) :
                       IF chatSessions[i].id = id
                       THEN LET old == chatSessions[i].messages
                                new == chatSessions'[i].messages
                            IN  /\ Len(new) = Len(old) + 1
                                /\ IsPrefix(old, new)
                                /\ new[Len(new)].sender = USER
                                /\ new[Len(new)].content = TextContent(text)
                       ELSE chatSessions'[i] = chatSessions[i]

\* A step that starts no turn adds no user message to any session.
C14_NoOtherUserAppend ==
    (\A t \in TurnIds : (turns[t].pc = "idle") = (turns'[t].pc = "idle")) =>
        IF Len(chatSessions') = Len(chatSessions)
        THEN \A i \in 1..Len(chatSessions) :
                 UserCount(chatSessions'[i].messages) = UserCount(chatSessions[i].messages)
        ELSE \A j \in 1..Len(chatSessions') :
                 \E i \in 1..Len(chatSessions) : chatSessions'[j] = chatSessions[i]

C14_Step ==
    /\ \A t \in TurnIds : (turns[t].pc = "idle" /\ turns'[t].pc # "idle") => C14_Start(t)
    /\ C14_NoOtherUserAppend

\* C14: every turn appends exactly one user message to its session, in the
\* step that starts the turn and precedes the settling of each of its network
\* calls; no later step of the turn adds a user message.
C14_OneUserMessagePerTurn == [][C14_Step]_vars

\* C14 witness: a second turn on an existing session is in flight; the session
\* holds the user message of each of its two turns and one answer between.
C14_Witness ==
    \E t, u \in TurnIds, i \in 1..Len(chatSessions) :
        /\ turns[u].pc = "done" /\ turns[u].isNewChat
        /\ turns[t].pc = "chat" /\ ~turns[t].isNewChat
        /\ chatSessions[i].id = turns[t].chatToUpdateId
        /\ turns[u].chatToUpdateId = turns[t].chatToUpdateId
        /\ UserCount(chatSessions[i].messages) = 2
        /\ Len(chatSessions[i].messages) = 3

\* The outcome a rendering shows: the fixed text of NOT_FOUND or OUT_OF_SCOPE,
\* the question of a CLARIFICATION, or the answer layout.
OutcomeOf(body) ==
    IF body.tag # "div" THEN "TEXT"
    ELSE IF body.className = "space-y-4" THEN "ANSWER"
    ELSE IF body.children # <<>> /\ body.children[1] = P(NotFoundText) THEN "NOT_FOUND"
    ELSE IF body.children # <<>> /\ body.children[1] = P(OutOfScopeText) THEN "OUT_OF_SCOPE"
    ELSE "CLARIFICATION"

\* The outcome by first match in the order of the classifier.
ExpectedOutcome(response) ==
    IF Has(response, "isNotFound") /\ response.isNotFound = TRUE THEN "NOT_FOUND"
    ELSE IF Has(response, "isOutOfScope") /\ response.isOutOfScope = TRUE THEN "OUT_OF_SCOPE"
    ELSE IF Has(response, "clarification") /\ response.clarification # "" THEN "CLARIFICATION"
    ELSE "ANSWER"

\* A bubble with a structured response has been rendered.
RenderedResponse ==
    bubble.pc = "rendered" /\ bubble.message.content.typeof = "object"

\* C15: every StructuredResult, whichever of its fields are present, is
\* rendered as exactly one outcome, the first that matches in the order
\* isNotFound, isOutOfScope, non-empty clarification, answer.
C15_FirstMatchOutcome ==
    RenderedResponse =>
        LET response == bubble.message.content
            body == bubble.view.body
        IN  /\ OutcomeOf(body) = ExpectedOutcome(response)
            /\ OutcomeOf(body) = "CLARIFICATION" =>
                   body.children[1] = P(response.clarification)

\* C15 witness: a result with both flags set, a clarification and a summary
\* has been rendered as NOT_FOUND.
C15_Witness ==
    /\ RenderedResponse
    /\ Flag(bubble.message.content, "isNotFound")
    /\ Flag(bubble.message.content, "isOutOfScope")
    /\ NonEmptyString(bubble.message.content, "clarification")
    /\ NonEmptyString(bubble.message.content, "summary")
    /\ OutcomeOf(bubble.view.body) = "NOT_FOUND"

\* The children of body that are not debug info.
ContentChildren(body) ==
    SelectSeq(body.children, LAMBDA child : child.tag # "DebugInfo")

\* What an answer is to show of response: the summary and the three lists,
\* each only if present and not empty, in this order.
AnswerParts(response) ==
    (IF Has(response, "summary") /\ response.summary # ""
     THEN <<P(response.summary)>> ELSE <<>>)
    \o (IF Has(response, "steps") /\ response.steps # <<>>
        THEN <<ListBlock("Steps:", response.steps)>> ELSE <<>>)
    \o (IF Has(response, "notes") /\ response.notes # <<>>
        THEN <<ListBlock("Notes:", response.notes)>> ELSE <<>>)
    \o (IF Has(response, "sources") /\ response.sources # <<>>
        THEN <<ListBlock("Sources:", response.sources)>> ELSE <<>>)

\* C16: summary, steps, notes and sources are rendered in the ANSWER outcome
\* only: the other outcomes show their one text and nothing of these fields;
\* an answer shows exactly those of them that are present and not empty, and a
\* result without any field or flag renders as an answer without content.
C16_AnswerFieldsOnlyInAnswer ==
    RenderedResponse =>
        LET response == bubble.message.content
            body == bubble.view.body
        IN  IF OutcomeOf(body) = "ANSWER"
            THEN ContentChildren(body) = AnswerParts(response)
            ELSE /\ Len(ContentChildren(body)) = 1
                 /\ ContentChildren(body)[1] \in
                        { P(NotFoundText), P(OutOfScopeText) }
                            \cup (IF Has(response, "clarification")
                                  THEN { P(response.clarification) } ELSE {})
                 /\ \A k \in 1..Len(AnswerParts(response)) :
                        AnswerParts(response)[k] # ContentChildren(body)[1]

\* C16 witness: a result with no field and no flag has been rendered, as an
\* answer without content.
C16_Witness ==
    /\ RenderedResponse
    /\ bubble.message.content = [typeof |-> "object"]
    /\ bubble.view.body = Div("space-y-4", <<>>)

\* The endpoint has answered a request that passed its checks of method,
\* body and keys, so that the retrieval ran.
RetrievalRan ==
    /\ server.pc \in {"responded"}
    /\ server.req.method = "POST"
    /\ Has(server.req.body, "messages")
    /\ server.req.body.messages.typeof = "array"
    /\ server.req.body.messages.v # <<>>
    /\ LET messages == server.req.body.messages.v
       IN  /\ messages[Len(messages)].sender = USER
           /\ messages[Len(messages)].content.typeof = "string"
    /\ server.env.API_KEY /\ server.env.SLITE_API_KEY

\* The search of the answered request came back with a list of hits.
SearchHasHits ==
    /\ server.search.kind = "ok"
    /\ Has(server.search, "data")
    /\ server.search.data.typeof = "array"
    /\ server.search.data.v # <<>>

\* The documents of the hits whose detail fetch yielded the note, in hit order.
DocsOfGoodHits(hits) ==
    LET good == SelectSeq(hits, LAMBDA hit : hit.kind = "ok")
    IN  [i \in 1..Len(good) |->
            [title |-> good[i].title, content |-> TruncateContent(good[i].plaintext)]]

\* C17 (as claimed): whichever detail fetches fail, by status, transport error
\* or unreadable body, the retrieval succeeds with the documents of the other
\* hits, and the model is called with them.
C17_DetailFailureDropsOnlyThatHit ==
    (RetrievalRan /\ SearchHasHits) =>
        LET retrieved == FetchSopsFromSlite(server.search)
        IN  /\ ~retrieved.threw
            /\ retrieved.sops = DocsOfGoodHits(server.search.data.v)
            /\ server.result.model.called
            /\ server.result.model.sops = DocsOfGoodHits(server.search.data.v)

\* The search of the answered request failed at the network or HTTP layer.
SearchFailed == server.search.kind \in {"reject", "notok"}

\* The answered request is the one the request of the waiting turn carries.
FromWaitingTurn ==
    server.req = [method |-> "POST", body |-> [messages |-> JArr(<<FirstUserMessage>>)]]

\* C18: when the search call fails at the network or HTTP layer the endpoint
\* issues no detail fetch and no model call and answers with a non-2xx error
\* payload; the orchestrator, on receiving it, appends the apology to the
\* turn's session and clears the busy flag.
C18_SearchFailureIsHard ==
    (RetrievalRan /\ SearchFailed) =>
        /\ FetchSopsFromSlite(server.search).detailFetches = 0
        /\ server.result.searched
        /\ server.result.model = NoCall
        /\ ~Ok(server.result.response)
        /\ Has(server.result.response.json, "error")
        /\ (FromWaitingTurn /\ turns[1].pc = "chat") => ENABLED deliverResponse
        /\ turns[1].pc = "done" =>
               /\ ~isLoading
               /\ Len(chatSessions) = 1
               /\ Len(chatSessions[1].messages) = 2
               /\ chatSessions[1].messages[1] = FirstUserMessage
               /\ chatSessions[1].messages[2].sender = ASSISTANT
               /\ chatSessions[1].messages[2].content = ApologyContent

\* C18 witness: the search was rejected, the endpoint answered 500 without a
\* model call, and the waiting turn has ended with the apology.
C18_Witness ==
    /\ RetrievalRan
    /\ FromWaitingTurn
    /\ server.search.kind = "reject"
    /\ server.result.response.status = 500
    /\ turns[1].pc = "done"
    /\ chatSessions[1].messages[2].content = ApologyContent

\* The search of the answered request succeeded without a usable hit list:
\* no data, data that is no array, or an empty array.
SearchWithoutHits ==
    /\ server.search.kind = "ok"
    /\ \/ ~Has(server.search, "data")
       \/ server.search.data.typeof # "array"
       \/ server.search.data.v = <<>>

\* C19: a successful search with zero hits, or with a missing or non-array
\* hit list, is no error: the retrieval returns the empty collection without
\* a detail fetch and the endpoint goes on to the model call with no
\* documents, its answer depending on the model alone.
C19_NoHitsIsNotAnError ==
    (RetrievalRan /\ SearchWithoutHits) =>
        LET retrieved == FetchSopsFromSlite(server.search)
        IN  /\ ~retrieved.threw
            /\ retrieved.sops = <<>>
            /\ retrieved.detailFetches = 0
            /\ server.result.model.called
            /\ server.result.model.sops = <<>>
            /\ (server.gen.kind = "text" /\ server.gen.json.typeof = "object") =>
                   server.result.response = HttpResponse(200, server.gen.json)

\* C19 witness: a search with an empty hit list was answered with status 200
\* after a model call without documents.
C19_Witness ==
    /\ RetrievalRan
    /\ server.search = [kind |-> "ok", data |-> JArr(<<>>)]
    /\ server.result.model.called
    /\ server.result.model.sops = <<>>
    /\ server.result.response.status = 200

\* C20 (as claimed): the endpoint answers 200 only with model output that
\* parsed as a schema-shaped object; a throw of the model call, a response
\* without text and output that is no such object yield a non-2xx error
\* payload.
C20_OnlyParsedResultsAre200 ==
    (RetrievalRan /\ ~FetchSopsFromSlite(server.search).threw) =>
        IF server.gen.kind = "text" /\ server.gen.json.typeof = "object"
        THEN server.result.response = HttpResponse(200, server.gen.json)
        ELSE /\ ~Ok(server.result.response)
             /\ Has(server.result.response.json, "error")

\* The text of the model turn claimed for one message of the history: the
\* text of a user message, the clarification of an assistant message that has
\* a non-empty one, the serialization of the structured result otherwise.
C21_ClaimedText(msg) ==
    IF msg.content.typeof = "string" THEN msg.content.text
    ELSE IF Has(msg.content, "clarification") /\ msg.content.clarification # <<>>
    THEN msg.content.clarification
    ELSE Stringify(msg.content)

\* C21 (as claimed): the history becomes one model turn per message in the
\* same order, a user message as a 'user' turn with its text, an assistant
\* message as a 'model' turn with its clarification text when it has a
\* non-empty one and with the serialization of its structured result otherwise.
C21_HistoryBecomesModelTurns ==
    (RetrievalRan /\ server.result.model.called) =>
        LET messages == server.req.body.messages.v
            contents == server.result.model.contents
        IN  /\ Len(contents) = Len(messages)
            /\ \A i \in 1..Len(messages) :
                   /\ contents[i].role = (IF messages[i].sender = USER THEN "user" ELSE "model")
                   /\ contents[i].parts = << [text |-> C21_ClaimedText(messages[i])] >>

\* The retrieval of the answered request returned zero documents.
ZeroDocuments ==
    /\ RetrievalRan
    /\ ~FetchSopsFromSlite(server.search).threw
    /\ FetchSopsFromSlite(server.search).sops = <<>>

\* The message the waiting turn ended with.
LastMessage == chatSessions[1].messages[Len(chatSessions[1].messages)]

\* C22 (as claimed): when the retrieval returns zero documents the document
\* block of the prompt is the empty collection and the turn does not end in
\* an ANSWER outcome, whatever the generator produces.
C22_NoDocumentsNoAnswer ==
    ZeroDocuments =>
        /\ server.result.model.called => server.result.model.sops = <<>>
        /\ (FromWaitingTurn /\ turns[1].pc = "done" /\ LastMessage.content # ApologyContent) =>
               OutcomeOf(MessageBubble(LastMessage).body) # "ANSWER"

\* The retrieval has returned its documents.
Returned == Has(server, "hits") /\ server.pc = "returned"

\* C23: the content of every document of the prompt is the first 1000
\* characters of the fetched plaintext, followed by '...' exactly when the
\* plaintext is longer than 1000 characters: it has at most 1003 characters,
\* and a plaintext of at most 1000 characters is passed unchanged.
C23_ContentIsBoundedPrefix ==
    Returned =>
        LET kept == SelectSeq(server.hits, LAMBDA hit : hit.kind = "ok")
        IN  /\ Len(server.sops) = Len(kept)
            /\ \A i \in 1..Len(kept) :
                   LET plaintext == kept[i].plaintext
                       content == server.sops[i].content
                   IN  /\ Len(content) <= 1003
                       /\ Len(plaintext) <= 1000 => content = plaintext
                       /\ Len(plaintext) > 1000 =>
                              /\ Len(content) = 1003
                              /\ SubSeq(content, 1, 1000) = SubSeq(plaintext, 1, 1000)
                              /\ SubSeq(content, 1001, 1003) = <<".", ".", ".">>

\* C23 witness: a note of 1002 characters was cut to 1003 and a note of
\* exactly 1000 characters was passed unchanged.
C23_Witness ==
    /\ Returned
    /\ Len(server.sops) = 2
    /\ Len(server.hits[1].plaintext) = 1002 /\ Len(server.sops[1].content) = 1003
    /\ Len(server.hits[2].plaintext) = 1000 /\ server.sops[2].content = server.hits[2].plaintext

\* C28 (as claimed): the detail fetches of a retrieval are all issued before
\* any of them is awaited, and the retrieval completes, with its documents or
\* with an error, only after every one of them has settled.
C28_JoinAfterAllSettled ==
    Has(server, "hits") =>
        /\ server.pc \in {"joining", "returned", "threw"} =>
               (server.hits # <<>> => server.issued = DOMAIN server.hits)
        /\ server.settled \subseteq server.issued
        /\ server.pc \in {"returned", "threw"} => server.settled = server.issued

\* Every detail fetch of a non-empty hit list fails: by status, by transport
\* error or by an unreadable body.
AllDetailsFail ==
    /\ Has(server, "hits")
    /\ server.hits # <<>>
    /\ \A i \in DOMAIN server.hits : server.hits[i].kind # "ok"

\* C29 (as claimed): when every detail fetch of a non-empty search result
\* fails, the retrieval does not throw, and the documents it returns are those
\* returned for a search with zero hits, the empty collection.
C29_AllFailedIsNoDocuments ==
    AllDetailsFail =>
        /\ server.pc # "threw"
        /\ server.pc = "returned" => server.sops = <<>>
        /\ ~FetchSopsFromSlite([kind |-> "ok", data |-> JArr(server.hits)]).threw
        /\ FetchSopsFromSlite([kind |-> "ok", data |-> JArr(server.hits)]).sops
               = FetchSopsFromSlite([kind |-> "ok", data |-> JArr(<<>>)]).sops

\* C24: once the startup load has run, between events the stored collection
\* is the serialization of the session set in memory (same sessions, order,
\* titles and messages); and the startup load of a stored array of sessions
\* takes over exactly these sessions and leaves them stored.
C24_StoredEqualsMemory ==
    /\ startup.pc = "ready" =>
           /\ localStorage.kind = "text"
           /\ localStorage.json = JArr(chatSessions)
    /\ (startup.pc = "mounting" /\ StoredArray(localStorage)) =>
           /\ ENABLED mount
           /\ ~ENABLED (mount /\ ~(/\ chatSessions' = localStorage.json.v
                                   /\ localStorage' = localStorage
                                   /\ startup'.pc = "ready"))

\* C24 witness: the application started with a stored session, a turn in a
\* new session has ended since, and the store holds both sessions.
C24_Witness ==
    /\ startup = Ready(FALSE)
    /\ Len(chatSessions) = 2
    /\ chatSessions[2] = EarlierSession
    /\ Len(chatSessions[1].messages) = 2
    /\ localStorage = StoredChats(chatSessions)

\* The first turn of a run: an example prompt is clicked on the welcome
\* screen, and a session holding the prompt is created and selected.
FirstTurnCreatesSession(prompt) ==
    /\ ENABLED onExampleClick(prompt)
    /\ ~ENABLED (onExampleClick(prompt)
                   /\ ~(/\ Len(chatSessions') = 1
                        /\ activeChatId' = chatSessions'[1].id
                        /\ chatSessions'[1].messages[1].content = TextContent(prompt)
                        /\ localStorage' = StoredChats(chatSessions')))

\* C25: a stored item that is missing, unparseable or no array is discarded
\* by the startup load: the session set is empty, nothing is selected, the
\* application comes up without an error, and a first turn then creates a
\* session as after a start without stored data.
C25_BadStoredDataDiscarded ==
    /\ (startup.pc = "mounting" /\ ~StoredArray(localStorage)) =>
           /\ ENABLED mount
           /\ ~ENABLED (mount /\ ~(/\ chatSessions' = <<>>
                                   /\ activeChatId' = NULL
                                   /\ startup'.pc = "ready"
                                   /\ localStorage' = StoredChats(<<>>)))
    /\ startup.pc # "crashed"
    /\ (startup.pc = "ready" /\ chatSessions = <<>> /\ \A t \in TurnIds : turns[t].pc = "idle") =>
           \A prompt \in ClickedPrompts : FirstTurnCreatesSession(prompt)

\* C25 witness: the application started on an item it could not use, and its
\* first turn has created a session and ended with an answer.
C25_Witness ==
    /\ startup = Ready(TRUE)
    /\ Len(chatSessions) = 1
    /\ turns[1].pc = "done" /\ turns[1].isNewChat
    /\ Len(chatSessions[1].messages) = 2
    /\ chatSessions[1].messages[2].content # ApologyContent

\* The step that starts turn t, taken while the session with id selected is
\* selected: no session is added or removed, the selection stays, the user
\* message goes to the end of every record with the selected id, and every
\* other record is unchanged.
C26_IntoSelected(t, selected) ==
    /\ ~turns'[t].isNewChat
    /\ turns'[t].chatToUpdateId = selected
    /\ activeChatId' = selected
    /\ Len(chatSessions') = Len(chatSessions)
    /\ \A i \in 1..Len(chatSessions) :
           IF chatSessions[i].id = selected
           THEN /\ chatSessions'[i].id = chatSessions[i].id
                /\ chatSessions'[i].title = chatSessions[i].title
                /\ Len(chatSessions'[i].messages) = Len(chatSessions[i].messages) + 1
                /\ IsPrefix(chatSessions[i].messages, chatSessions'[i].messages)
                /\ LET last == chatSessions'[i].messages[Len(chatSessions'[i].messages)]
                   IN  /\ last.sender = USER
                       /\ last.content = TextContent(turns'[t].messageText)
           ELSE chatSessions'[i] = chatSessions[i]

\* The step that starts turn t, taken while nothing is selected: one session
\* is added in front of the others, which are unchanged, and it is selected.
C26_IntoNew(t) ==
    /\ turns'[t].isNewChat
    /\ Len(chatSessions') = Len(chatSessions) + 1
    /\ Tail(chatSessions') = chatSessions
    /\ activeChatId' = chatSessions'[1].id
    /\ turns'[t].chatToUpdateId = chatSessions'[1].id

C26_Step ==
    \A t \in TurnIds :
        (turns[t].pc = "idle" /\ turns'[t].pc # "idle") =>
            IF activeChatId = NULL THEN C26_IntoNew(t) ELSE C26_IntoSelected(t, activeChatId)

\* C26: a turn creates a session if and only if no session is selected when
\* it is submitted; submitted with a session selected, it leaves the number of
\* sessions and the selection unchanged and appends its user message to the
\* selected session only.
C26_NewSessionIffNoneSelected == [][C26_Step]_vars

\* C26 witness: with two sessions listed, a turn was submitted in the selected
\* one and awaits its answer; the other session was created by an earlier turn.
C26_Witness ==
    \E t, u \in TurnIds :
        /\ Len(chatSessions) = 2
        /\ turns[t].pc = "chat" /\ ~turns[t].isNewChat
        /\ turns[u].pc # "idle" /\ turns[u].isNewChat
        /\ turns[t].chatToUpdateId # turns[u].chatToUpdateId
        /\ activeChatId = turns[t].chatToUpdateId

\* C27 (as claimed): while the answer request of any turn is unresolved the
\* busy flag is set.
C27_BusyWhileAnyAnswerPending ==
    (\E t \in TurnIds : turns[t].pc = "chat") => isLoading

\* The title completion of turn t: in every record with the captured id only
\* the title may change; nothing else changes.
C30_TitleFrame(t) ==
    /\ Len(chatSessions') = Len(chatSessions)
    /\ activeChatId' = activeChatId
    /\ \A i \in 1..Len(chatSessions) :
           IF chatSessions[i].id = turns[t].chatToUpdateId
           THEN /\ chatSessions'[i].id = chatSessions[i].id
                /\ chatSessions'[i].messages = chatSessions[i].messages
           ELSE chatSessions'[i] = chatSessions[i]

\* The answer or apology completion of turn t: every record with the captured
\* id gets one assistant message at the end of its messages and keeps its
\* title; nothing else changes.
C30_AnswerFrame(t) ==
    /\ Len(chatSessions') = Len(chatSessions)
    /\ activeChatId' = activeChatId
    /\ \A i \in 1..Len(chatSessions) :
           IF chatSessions[i].id = turns[t].chatToUpdateId
           THEN /\ chatSessions'[i].id = chatSessions[i].id
                /\ chatSessions'[i].title = chatSessions[i].title
                /\ Len(chatSessions'[i].messages) = Len(chatSessions[i].messages) + 1
                /\ IsPrefix(chatSessions[i].messages, chatSessions'[i].messages)
                /\ chatSessions'[i].messages[Len(chatSessions'[i].messages)].sender = ASSISTANT
           ELSE chatSessions'[i] = chatSessions[i]

C30_Step ==
    \A t \in TurnIds :
        /\ (turns[t].pc = "title" /\ turns'[t].pc # "title") => C30_TitleFrame(t)
        /\ (turns[t].pc = "chat" /\ turns'[t].pc # "chat") => C30_AnswerFrame(t)

\* C30: a completion changes only the session whose id its turn captured and
\* only its own field: a title completion the title, leaving the messages; an
\* answer or apology completion the messages, by one appended message, leaving
\* the title.  All other sessions and the selection are unchanged.
C30_CompletionsTouchOwnField == [][C30_Step]_vars

\* C30 witness: next to a session loaded from storage, which is as stored, the
\* turn of a new session has set a generated title and appended its answer
\* while another session was selected.
C30_Witness ==
    /\ Len(chatSessions) = 2
    /\ chatSessions[2] = EarlierSession
    /\ activeChatId = EarlierSession.id
    /\ turns[1].pc = "done" /\ turns[1].isNewChat
    /\ chatSessions[1].id = turns[1].chatToUpdateId
    /\ chatSessions[1].title # FallbackTitle(examplePrompts[1])
    /\ Len(chatSessions[1].messages) = 2

AssistantCount(messages) ==
    Cardinality({ k \in 1..Len(messages) : messages[k].sender = ASSISTANT })

\* No call of handleSendMessage is between its start and its return.
NoTurnInFlight == \A t \in TurnIds : ~InFlight(t)

\* C31 (as claimed): started with an empty session set, whenever no turn is in
\* flight every listed session holds as many assistant messages as user
\* messages.
C31_AnswersBalanceQuestions ==
    NoTurnInFlight =>
        \A i \in 1..Len(chatSessions) :
            AssistantCount(chatSessions[i].messages) = UserCount(chatSessions[i].messages)

\* C32: the selected session id is none or the id of a listed session, after
\* any sequence of load, new chat, select, submit, delete and completions.
C32_SelectionIsListed ==
    activeChatId = NULL \/ activeChatId \in SessionIds

\* C32 witness: the application loaded a stored session and selected it, a new
\* session was created since, and the stored one is selected again.
C32_Witness ==
    /\ startup.pc = "ready"
    /\ Len(chatSessions) = 2
    /\ chatSessions[2] = EarlierSession
    /\ activeChatId = EarlierSession.id
    /\ \E t \in TurnIds : turns[t].pc = "done" /\ turns[t].isNewChat

\* The chat endpoint's validation of method and body rejects the request.
RejectedByValidation(request) ==
    \E env \in Envs :
        ChatHandler(request.method, request.body, env, SearchFound, GenAnswer).response.status
            \in {400, 405}

\* C33: every chat request the orchestrator issues carries a non-empty history
\* whose last element is the user message of its turn, with non-empty string
\* content, so the endpoint's validation of method and body never rejects it.
C33_IssuedRequestsAreValid ==
    \A t \in TurnIds :
        turns[t].request.sent =>
            LET messages == turns[t].request.body.messages.v
                last == messages[Len(messages)]
            IN  /\ turns[t].request.method = "POST"
                /\ turns[t].request.body.messages.typeof = "array"
                /\ messages # <<>>
                /\ last.sender = USER
                /\ last.content.typeof = "string"
                /\ last.content.text # <<>>
                /\ last.content.text = turns[t].messageText
                /\ ~RejectedByValidation(turns[t].request)

\* C33 witness: a turn on a session loaded from storage has issued its chat
\* request, with the two stored messages and its own user message.
C33_Witness ==
    \E t \in TurnIds :
        /\ turns[t].pc = "chat"
        /\ turns[t].request.sent
        /\ turns[t].chatToUpdateId = EarlierSession.id
        /\ Len(turns[t].request.body.messages.v) = 3

\* The endpoint has answered the request it received.
Responded == Has(server, "req") /\ server.pc = "responded"

\* The answer is the error payload with this status, given before any search,
\* detail fetch or model call.
RefusedWith(status) ==
    /\ server.result.response.status = status
    /\ DOMAIN server.result.response.json = {"error"}
    /\ ~server.result.searched
    /\ server.result.model = NoCall

\* messages is a non-empty array.
MessagesGiven ==
    /\ Has(server.req.body, "messages")
    /\ server.req.body.messages.typeof = "array"
    /\ server.req.body.messages.v # <<>>

\* The last message is from the user and its content is a string.
EndsInUserText ==
    LET messages == server.req.body.messages.v
    IN  /\ messages[Len(messages)].sender = USER
        /\ messages[Len(messages)].content.typeof = "string"

\* C34 (as claimed): the chat endpoint searches, fetches details and calls the model only
\* for a POST whose messages are a non-empty array ending in a user message
\* with string content, with both keys configured; otherwise it answers 405,
\* 400, 400 or 500 with an error payload, by the first of these checks, in
\* this order, that fails.
C34_ChecksBeforeAnyCall ==
    Responded =>
        IF server.req.method # "POST" THEN RefusedWith(405)
        ELSE IF ~MessagesGiven THEN RefusedWith(400)
        ELSE IF ~EndsInUserText THEN RefusedWith(400)
        ELSE IF ~(server.env.API_KEY /\ server.env.SLITE_API_KEY) THEN RefusedWith(500)
        ELSE server.result.searched

\* C35: the documents of the prompt block are those of the hits whose detail
\* fetch yielded the note, in the order of the search hits, in whatever order
\* the detail fetches settled.
C35_DocumentsInHitOrder ==
    Returned =>
        LET good == SelectSeq(server.hits, LAMBDA hit : hit.kind = "ok")
        IN  /\ Len(server.sops) = Len(good)
            /\ \A i \in 1..Len(good) : server.sops[i].title = good[i].title

\* C35 witness: the detail fetch of the second hit settled before that of the
\* first, and the block lists the first hit's document first.
C35_Witness ==
    /\ Returned
    /\ server.order = <<2, 1>>
    /\ Len(server.sops) = 2
    /\ server.sops[1].title = DocTitles[1]
    /\ server.sops[2].title = DocTitles[2]

\* The title a session is created with: the fallback of its first message.
CreatedTitle(session) == FallbackTitle(session.messages[1].content.text)

\* The title of the record changes in this step: it was the one the session
\* was created with, and the step is the title completion of a turn that
\* created a session under the record's id.
C36_ChangeIsFirstAndByCreator(old, new) ==
    new.title # old.title =>
        /\ old.title = CreatedTitle(old)
        /\ \E t \in TurnIds :
               /\ turns[t].pc = "title" /\ turns'[t].pc = "chat"
               /\ turns[t].isNewChat
               /\ turns[t].chatToUpdateId = old.id

C36_Step ==
    /\ Len(chatSessions') = Len(chatSessions) =>
           \A i \in 1..Len(chatSessions) :
               C36_ChangeIsFirstAndByCreator(chatSessions[i], chatSessions'[i])
    /\ Len(chatSessions') > Len(chatSessions) => Tail(chatSessions') = chatSessions
    /\ Len(chatSessions') < Len(chatSessions) =>
           \A j \in 1..Len(chatSessions') :
               \E i \in 1..Len(chatSessions) : chatSessions'[j] = chatSessions[i]
    /\ \A t \in TurnIds : turns'[t].pc = "title" => turns'[t].isNewChat

\* C36 (as claimed): the title of a session changes at most once after the
\* session is created, and only through the title request of the turn that
\* created it; a turn submitted to an existing session issues no title
\* request and changes no title.
C36_TitleChangesOnceByCreator == [][C36_Step]_vars

\* C37 (as claimed): within a session no two messages share an id, and no
\* two listed sessions share an id.
C37_IdsAreUnique ==
    /\ \A i, j \in 1..Len(chatSessions) : chatSessions[i].id = chatSessions[j].id => i = j
    /\ \A i \in 1..Len(chatSessions) :
           \A k, l \in 1..Len(chatSessions[i].messages) :
               chatSessions[i].messages[k].id = chatSessions[i].messages[l].id => k = l

\* The millisecond a session id was built from.
CreatedAt(session) == session.id[2]

NewestFirst(sessions) ==
    \A i, j \in 1..Len(sessions) : i < j => CreatedAt(sessions[i]) >= CreatedAt(sessions[j])

\* The sessions of new are sessions of old, in the order they had in old
\* (compared by id: appends and title updates keep the id).
RECURSIVE KeepsOrder(_, _)
KeepsOrder(new, old) ==
    IF new = <<>> THEN TRUE
    ELSE IF old = <<>> THEN FALSE
    ELSE IF Head(new).id = Head(old).id THEN KeepsOrder(Tail(new), Tail(old))
    ELSE KeepsOrder(new, Tail(old))

C38_Step ==
    /\ NewestFirst(chatSessions')
    /\ IF startup.pc = "mounting"
       THEN startup'.pc = "ready" =>
                /\ StoredArray(localStorage) => chatSessions' = localStorage.json.v
                /\ chatSessions' # <<>> =>
                       /\ activeChatId' = chatSessions'[1].id
                       /\ \A i \in 1..Len(chatSessions') :
                              CreatedAt(chatSessions'[1]) >= CreatedAt(chatSessions'[i])
       ELSE IF startup'.pc = "mounting"
       THEN TRUE
       ELSE IF Len(chatSessions') > Len(chatSessions)
       THEN /\ Tail(chatSessions') = chatSessions
            /\ CreatedAt(chatSessions'[1]) = now
       ELSE KeepsOrder(chatSessions', chatSessions)

\* C38: the list is newest-created first: a new session goes to the front,
\* every other operation keeps the relative order of the sessions that remain,
\* and startup restores the stored order and selects its first session, the
\* most recently created one that survives.
C38_NewestCreatedFirst == [][C38_Step]_vars

\* A restart found two sessions created at different times and selected the
\* newer one.
C38_Witness ==
    /\ startup.pc = "ready"
    /\ \E t \in TurnIds : turns[t].pc = "gone"
    /\ Len(chatSessions) >= 2
    /\ CreatedAt(chatSessions[1]) > CreatedAt(chatSessions[2])
    /\ activeChatId = chatSessions[1].id
    /\ \A t \in TurnIds : turns[t].pc \in {"gone", "done"}

\* The bubble was mounted with the error message of the catch block.
ApologyMounted ==
    /\ bubble.pc \in {"mounted", "rendered"}
    /\ bubble.message.sender = ASSISTANT
    /\ bubble.message.content = ApologyContent

\* C39: the synthetic apology message is classified as ANSWER and renders as
\* an ordinary assistant bubble holding exactly its fixed summary text: no
\* steps, no notes, no sources, no debug info, no other outcome's text.
C39_ApologyRendersAsAnswer ==
    (ApologyMounted /\ bubble.pc = "rendered") =>
        /\ bubble.view.justify = "start"
        /\ OutcomeOf(bubble.view.body) = "ANSWER"
        /\ bubble.view.body.children =
               <<P("Sorry, I encountered an error. Please try again.")>>

\* C39 witness: the apology message has been rendered.
C39_Witness ==
    /\ ApologyMounted
    /\ bubble.pc = "rendered"
    /\ bubble.view.body.tag = "div"

====
